---------------------------- MODULE Spec2Model ----------------------------
(***************************************************************************)
(* Model of the loaf cellular-automaton engine: the naive Runtime          *)
(* (src/src/lang/runtime/naive/mod.rs), its boundary block                 *)
(* (src/src/lang/parse/blocks/boundary.rs), the rule table and rule        *)
(* expression tree (src/src/lang/runtime/ops/rules.rs) and the             *)
(* neighbourhood operator (src/src/lang/runtime/ops/neighborhood.rs).      *)
(*                                                                         *)
(* Coordinates are tuples <<x>>, <<x, y>>, <<x, y, z>>.  A generation is a *)
(* function from a finite set of coordinates to state ids.  Option values  *)
(* are state ids or None.  Rule values are records [kind, v] where a       *)
(* Boolean carries v = 1 for true and v = 0 for false.                     *)
(***************************************************************************)
EXTENDS Integers, Sequences, FiniteSets, TLC

VARIABLES
    current_tick,        \* Runtime.current_tick : HashMap<Coordinate, StateId>
    next_tick,           \* Runtime.next_tick
    initial_dimensions,  \* Runtime.initial_dimensions : DimensionBounds
    boundary,            \* Runtime.boundary : BoundaryBlock
    static_state,        \* Runtime.static_state : Option<StateId>
    default_state,       \* Runtime.default_state : Option<StateId>
    rules,               \* Runtime.rules : Rules
    neighborhood,        \* Runtime.neighborhood : Neighborhood (its rule list)
    tick,                \* Runtime.tick
    pc,                  \* position of the caller: "idle", "loop" (inside run_tick), "panic"
    schedule,            \* run_tick's local Vec `schedule`
    last,                \* locals of the most recent iteration of run_tick's loop
    delta,               \* SynchronousRuntime::run_tick's local `delta`, then its return value
    prior,               \* the grid as it was when the most recent SynchronousRuntime::run_tick began
    call,                \* the pure operation a test applies, with its arguments
    ret                  \* what that call returned (or the panic it raised)

vars == <<current_tick, next_tick, initial_dimensions, boundary, static_state,
          default_state, rules, neighborhood, tick, pc, schedule, last, delta, prior, call, ret>>

\* the magnitude of the neighbourhood rules of the runtime tests
Magnitude == 1

(***************************************************************************)
(* Bounds of the model.                                                    *)
(***************************************************************************)
\* initial_dimensions is the 1D bound [-Extent, Extent]
Extent == 1
\* set_cell / set_env build generations of at most this many cells, and
\* run_tick is started only on generations of at most this many cells
MaxCells == 2
\* run_tick is started only while tick < MaxTicks
MaxTicks == 2

\* isize is modelled IsizeBits wide (two's complement)
IsizeBits == 4

\* no pure operation has been applied
NoCall == [op |-> "", args |-> <<>>]
\* and so nothing has been returned; what a call returns is recorded with the
\* kind of value it is
NoReturn == [kind |-> "", v |-> 0]

\* isize::MIN and isize::MAX at that width
ISIZE_MIN == -(2 ^ (IsizeBits - 1))
ISIZE_MAX == 2 ^ (IsizeBits - 1) - 1
\* whether a mathematical result is representable
fits_isize(n) == ISIZE_MIN <= n /\ n <= ISIZE_MAX
\* the two's complement value an unchecked operation leaves
wrapping(n) == ((n - ISIZE_MIN) % (2 ^ IsizeBits)) + ISIZE_MIN

(***************************************************************************)
(* Option values and state ids.                                            *)
(***************************************************************************)
None == -1
\* a panic! raised instead of returning a value
Panicked == -2

\* States.state_map of the runtime tests: "A" -> 0, "B" -> 1
STATE_A == 0
STATE_B == 1
state_map == [name \in {"A", "B"} |-> IF name = "A" THEN STATE_A ELSE STATE_B]
StateIds == {state_map[name] : name \in DOMAIN state_map}

Empty == <<>>

\* HashMap::insert
Insert(map, key, value) == [k \in DOMAIN map \cup {key} |-> IF k = key THEN value ELSE map[k]]

(***************************************************************************)
(* Coordinate algebra.                                                     *)
(***************************************************************************)
\* a panic! raised instead of returning a Coordinate
NoCoordinate == <<>>

add_x(c, magnitude) == [c EXCEPT ![1] = @ + magnitude]
\* an add_y that leaves a 1D coordinate as it is
add_y_lenient(c, magnitude) == IF Len(c) < 2 THEN c ELSE [c EXCEPT ![2] = @ + magnitude]

\* a Y operation panics on a 1D coordinate, a Z operation on a 1D or 2D one
add_y(c, magnitude) == IF Len(c) < 2 THEN NoCoordinate ELSE [c EXCEPT ![2] = @ + magnitude]
add_z(c, magnitude) == IF Len(c) < 3 THEN NoCoordinate ELSE [c EXCEPT ![3] = @ + magnitude]
\* a sub_x that moves the coordinate the way add_x does
sub_x_added(c, magnitude) == [c EXCEPT ![1] = @ + magnitude]

sub_x(c, magnitude) == [c EXCEPT ![1] = @ - magnitude]
sub_y(c, magnitude) == IF Len(c) < 2 THEN NoCoordinate ELSE [c EXCEPT ![2] = @ - magnitude]
sub_z(c, magnitude) == IF Len(c) < 3 THEN NoCoordinate ELSE [c EXCEPT ![3] = @ - magnitude]
add_all(c, magnitude) == [i \in 1..Len(c) |-> [c EXCEPT ![i] = @ + magnitude]]
sub_all(c, magnitude) == [i \in 1..Len(c) |-> [c EXCEPT ![i] = @ - magnitude]]

(***************************************************************************)
(* DimensionBounds: a tuple of (low, high) pairs, one per axis.            *)
(***************************************************************************)
\* a bound that excludes its two ends
within_bound_exclusive(coord, bound) == bound[1] < coord /\ coord < bound[2]

within_bound(coord, bound) == bound[1] <= coord /\ coord <= bound[2]
at_bound(coord, bound) == bound[1] = coord \/ coord = bound[2]
\* the pairs (coord, self) that reach the `_ => panic!("Dimension mismatch")` arm
dimension_mismatch(dims, coord) == Len(coord) # Len(dims)

contains(dims, coord) ==
    IF dimension_mismatch(dims, coord) THEN Panicked
    ELSE \A i \in 1..Len(dims) : within_bound(coord[i], dims[i])
DimensionBounds_boundary(dims, coord) ==
    IF dimension_mismatch(dims, coord) THEN Panicked
    ELSE \E i \in 1..Len(dims) : at_bound(coord[i], dims[i])

(***************************************************************************)
(* BoundaryBlock.                                                          *)
(***************************************************************************)
NoName == ""
Void == [kind |-> "Void", name |-> NoName]
Wrap == [kind |-> "Wrap", name |-> NoName]
Infinite == [kind |-> "Infinite", name |-> NoName]
Static(name) == [kind |-> "Static", name |-> name]

\* a finiteness test that forgets the Void boundary
is_finite_not_void(b) == b # Infinite /\ b # Void

is_finite(b) == b # Infinite
is_static(b) == IF b.kind = "Static" THEN b.name ELSE NoName

(***************************************************************************)
(* Neighbourhood operator.                                                 *)
(***************************************************************************)
DirectedEdge(dimension, magnitude) ==
    [rule |-> "DirectedEdge", dimension |-> dimension, magnitude |-> magnitude, children |-> <<>>]
UndirectedEdge(dimension, magnitude) ==
    [rule |-> "UndirectedEdge", dimension |-> dimension, magnitude |-> magnitude, children |-> <<>>]
Compound(children) ==
    [rule |-> "Compound", dimension |-> "All", magnitude |-> 0, children |-> children]

Reverse(s) == [i \in 1..Len(s) |-> s[Len(s) + 1 - i]]

RECURSIVE Flatten(_)
Flatten(ss) == IF ss = <<>> THEN <<>> ELSE Head(ss) \o Flatten(Tail(ss))

\* a Compound that yields what each child yields at the starting coordinate
\* (the intermediate coordinates) instead of composing the children
RuleNeighborsOfChildren(rule, c) ==
    LET Edge(r) ==
            CASE r.rule = "DirectedEdge" ->
                    CASE r.dimension = "X" -> <<add_x(c, r.magnitude)>>
                      [] r.dimension = "Y" -> <<add_y(c, r.magnitude)>>
                      [] r.dimension = "Z" -> <<add_z(c, r.magnitude)>>
                      [] OTHER -> Reverse(add_all(c, r.magnitude))
              [] OTHER ->
                    CASE r.dimension = "X" -> <<sub_x(c, r.magnitude), add_x(c, r.magnitude)>>
                      [] r.dimension = "Y" -> <<sub_y(c, r.magnitude), add_y(c, r.magnitude)>>
                      [] r.dimension = "Z" -> <<sub_z(c, r.magnitude), add_z(c, r.magnitude)>>
                      [] OTHER -> Reverse(add_all(c, r.magnitude) \o sub_all(c, r.magnitude))
    IN  IF rule.rule = "Compound"
        THEN Flatten([i \in 1..Len(rule.children) |-> Edge(rule.children[i])])
        ELSE Edge(rule)

\* The coordinates NeighborhoodIter yields for one rule, in the order it yields them.
RECURSIVE RuleNeighbors(_, _)
RuleNeighbors(rule, c) ==
    CASE rule.rule = "DirectedEdge" ->
            CASE rule.dimension = "X" -> <<add_x(c, rule.magnitude)>>
              [] rule.dimension = "Y" -> <<add_y(c, rule.magnitude)>>
              [] rule.dimension = "Z" -> <<add_z(c, rule.magnitude)>>
              [] OTHER -> Reverse(add_all(c, rule.magnitude))
      [] rule.rule = "UndirectedEdge" ->
            CASE rule.dimension = "X" -> <<sub_x(c, rule.magnitude), add_x(c, rule.magnitude)>>
              [] rule.dimension = "Y" -> <<sub_y(c, rule.magnitude), add_y(c, rule.magnitude)>>
              [] rule.dimension = "Z" -> <<sub_z(c, rule.magnitude), add_z(c, rule.magnitude)>>
              [] OTHER -> Reverse(add_all(c, rule.magnitude) \o sub_all(c, rule.magnitude))
      [] OTHER ->
            LET RECURSIVE Apply(_, _)
                Apply(coord_queue, rule_queue) ==
                    IF rule_queue = <<>> THEN coord_queue
                    ELSE Apply(Flatten([i \in 1..Len(coord_queue) |->
                                            RuleNeighbors(Head(rule_queue), coord_queue[i])]),
                               Tail(rule_queue))
            \* the first child seeds coord_queue; the remaining children are applied in
            \* the order of the reversed rule_queue
            IN  Reverse(Apply(RuleNeighbors(Head(rule.children), c),
                              Reverse(Tail(rule.children))))

\* a neighbors whose queue keeps only what the last rule produced
neighbors_last_rule(nrules, c) == RuleNeighbors(nrules[Len(nrules)], c)

\* Neighborhood::neighbors collected into a sequence
neighbors(nrules, c) == Flatten([i \in 1..Len(nrules) |-> RuleNeighbors(nrules[i], c)])

(***************************************************************************)
(* Rule expression tree and rule table.                                    *)
(***************************************************************************)
\* RuleValue
Number(n) == [kind |-> "Number", v |-> n]
Boolean(b) == [kind |-> "Boolean", v |-> IF b THEN 1 ELSE 0]
\* a panic! raised while evaluating an expression
Panic == [kind |-> "Panic", v |-> 0]

\* impl From<RuleValue> for bool
into_bool(value) == value.v # 0

\* derived PartialOrd / Ord of RuleValue: variants in declaration order
\* (Number before Boolean), then the payload
VariantIndex(value) == IF value.kind = "Number" THEN 0 ELSE 1
RuleValue_lt(lhs, rhs) ==
    \/ VariantIndex(lhs) < VariantIndex(rhs)
    \/ VariantIndex(lhs) = VariantIndex(rhs) /\ lhs.v < rhs.v

\* Rust integer division truncates toward zero
TruncDiv(a, b) ==
    IF (a >= 0) = (b > 0) THEN (IF a >= 0 THEN a ELSE -a) \div (IF b >= 0 THEN b ELSE -b)
    ELSE -((IF a >= 0 THEN a ELSE -a) \div (IF b >= 0 THEN b ELSE -b))

\* RuleASTNode after build_ast: state names already resolved to ids
Num(n) == [op |-> "Number", v |-> n, lhs |-> <<>>, rhs |-> <<>>]
Census(state_id) == [op |-> "Census", v |-> state_id, lhs |-> <<>>, rhs |-> <<>>]
BinOp(op, lhs, rhs) == [op |-> op, v |-> 0, lhs |-> <<lhs>>, rhs |-> <<rhs>>]

\* a census that counts a state once however often it occurs
census_count_distinct(state_id, nbhd) == IF \E i \in 1..Len(nbhd) : nbhd[i] = state_id THEN 1 ELSE 0

\* Census::evaluate
census_count(state_id, nbhd) == Cardinality({i \in 1..Len(nbhd) : nbhd[i] = state_id})

\* the closures of binary_operations!
apply_op(op, lhs, rhs) ==
    IF lhs = Panic \/ rhs = Panic THEN Panic
    ELSE CASE op \in {"AddOp", "SubOp", "MulOp", "DivOp"} ->
                IF lhs.kind # "Number" \/ rhs.kind # "Number" THEN Panic
                ELSE CASE op = "AddOp" -> Number(lhs.v + rhs.v)
                       [] op = "SubOp" -> Number(lhs.v - rhs.v)
                       [] op = "MulOp" -> Number(lhs.v * rhs.v)
                       [] OTHER -> IF rhs.v = 0 THEN Panic ELSE Number(TruncDiv(lhs.v, rhs.v))
           [] op = "EqOp" -> Boolean(lhs = rhs)
           [] op = "NeqOp" -> Boolean(lhs # rhs)
           [] op = "GtOp" -> Boolean(RuleValue_lt(rhs, lhs))
           [] op = "GteOp" -> Boolean(~RuleValue_lt(lhs, rhs))
           [] op = "LtOp" -> Boolean(RuleValue_lt(lhs, rhs))
           [] op = "LteOp" -> Boolean(~RuleValue_lt(rhs, lhs))
           [] op = "AndOp" -> Boolean(into_bool(lhs) /\ into_bool(rhs))
           [] OTHER -> Boolean(into_bool(lhs) \/ into_bool(rhs))

\* the arithmetic closures on isize operands at the limits of the type: `+`,
\* `-` and `*` panic on overflow in a build with overflow checks and wrap in
\* one without; `/` panics on a zero divisor and on MIN / -1 in every build
apply_op_isize(op, lhs, rhs, overflow_checks) ==
    IF op \in {"AddOp", "SubOp", "MulOp", "DivOp"} /\ lhs.kind = "Number" /\ rhs.kind = "Number"
    THEN IF op = "DivOp"
         THEN IF rhs.v = 0 \/ ~fits_isize(TruncDiv(lhs.v, rhs.v)) THEN Panic
              ELSE Number(TruncDiv(lhs.v, rhs.v))
         ELSE LET n == CASE op = "AddOp" -> lhs.v + rhs.v
                         [] op = "SubOp" -> lhs.v - rhs.v
                         [] OTHER -> lhs.v * rhs.v
              IN  IF fits_isize(n) THEN Number(n)
                  ELSE IF overflow_checks THEN Panic ELSE Number(wrapping(n))
    ELSE apply_op(op, lhs, rhs)

\* RuleOperation::evaluate
RECURSIVE rule_evaluate(_, _)
rule_evaluate(node, nbhd) ==
    CASE node.op = "Number" -> Number(node.v)
      [] node.op = "Census" -> Number(census_count(node.v, nbhd))
      [] OTHER -> apply_op(node.op, rule_evaluate(node.lhs[1], nbhd),
                           rule_evaluate(node.rhs[1], nbhd))

\* TransitionRule of a RulesBlock, with the state names already looked up
TransitionRule(from, to, root) == [from |-> state_map[from], to |-> state_map[to], root |-> root]

\* Rules::from_block: the rules of every from-state, in declaration order
from_block(block) ==
    [from \in {block[i].from : i \in 1..Len(block)} |->
        SelectSeq(block, LAMBDA r : r.from = from)]

\* a scan in which the last rule that fires wins
RECURSIVE scan_rules_last_match(_, _)
scan_rules_last_match(rs, nbhd) ==
    IF rs = <<>> THEN None
    ELSE LET later == scan_rules_last_match(Tail(rs), nbhd)
         IN  IF later # None THEN later
             ELSE IF into_bool(rule_evaluate(Head(rs).root, nbhd)) THEN Head(rs).to
             ELSE None

\* Rules::evaluate: Some(to) of the first rule that fires, None, or Panicked
RECURSIVE scan_rules(_, _)
scan_rules(rs, nbhd) ==
    IF rs = <<>> THEN None
    ELSE LET value == rule_evaluate(Head(rs).root, nbhd)
         IN  IF value = Panic THEN Panicked
             ELSE IF into_bool(value) THEN Head(rs).to
             ELSE scan_rules(Tail(rs), nbhd)

evaluate(table, state, nbhd) ==
    IF state \notin DOMAIN table THEN None ELSE scan_rules(table[state], nbhd)

(***************************************************************************)
(* The naive Runtime.                                                      *)
(***************************************************************************)
\* a lookup that prefers the state already written for the coming generation
current_get_next_first(self, c) ==
    IF c \in DOMAIN self.next_tick THEN self.next_tick[c]
    ELSE IF c \in DOMAIN self.current_tick THEN self.current_tick[c] ELSE None

\* self.current_tick.get(&c), for self = [current_tick, next_tick]
current_get(self, c) ==
    IF c \in DOMAIN self.current_tick THEN self.current_tick[c] ELSE None

\* every processed cell wakes its neighbours
should_wake_always(self, coord) == TRUE

\* no processed cell wakes its neighbours
should_wake_never(self, coord) == FALSE

\* self.current_tick.contains_key(&coord): only cells of the prior generation
\* wake their neighbours
should_wake(self, coord) == coord \in DOMAIN self.current_tick

\* a loop body that also pushes a neighbour found in current_tick
VisitNeighborRewake(self, coord, neighbor) ==
    IF is_finite(boundary) /\ ~contains(initial_dimensions, neighbor)
    THEN [neighbor |-> neighbor, state |-> None, push |-> FALSE]
    ELSE IF static_state # None /\ DimensionBounds_boundary(initial_dimensions, neighbor)
    THEN [neighbor |-> neighbor, state |-> static_state, push |-> FALSE]
    ELSE IF current_get(self, neighbor) # None
    THEN [neighbor |-> neighbor, state |-> current_get(self, neighbor),
          push |-> should_wake(self, coord)]
    ELSE IF ~is_finite(boundary)
    THEN IF default_state = None
         THEN [neighbor |-> neighbor, state |-> Panicked, push |-> FALSE]
         ELSE [neighbor |-> neighbor, state |-> default_state,
               push |-> should_wake(self, coord)]
    ELSE [neighbor |-> neighbor, state |-> None, push |-> FALSE]

\* a loop body that skips a neighbour holding no cell when no default state
\* is defined
VisitNeighborSkipsAbsent(self, coord, neighbor) ==
    IF is_finite(boundary) /\ ~contains(initial_dimensions, neighbor)
    THEN [neighbor |-> neighbor, state |-> None, push |-> FALSE]
    ELSE IF static_state # None /\ DimensionBounds_boundary(initial_dimensions, neighbor)
    THEN [neighbor |-> neighbor, state |-> static_state, push |-> FALSE]
    ELSE IF current_get(self, neighbor) # None
    THEN [neighbor |-> neighbor, state |-> current_get(self, neighbor), push |-> FALSE]
    ELSE IF ~is_finite(boundary) /\ default_state # None
    THEN [neighbor |-> neighbor, state |-> default_state, push |-> should_wake(self, coord)]
    ELSE [neighbor |-> neighbor, state |-> None, push |-> FALSE]

\* a loop body that reads the stored state of an edge neighbour before it
\* falls back on the static state
VisitNeighborStoredFirst(self, coord, neighbor) ==
    IF is_finite(boundary) /\ ~contains(initial_dimensions, neighbor)
    THEN [neighbor |-> neighbor, state |-> None, push |-> FALSE]
    ELSE IF current_get(self, neighbor) # None
    THEN [neighbor |-> neighbor, state |-> current_get(self, neighbor), push |-> FALSE]
    ELSE IF static_state # None /\ DimensionBounds_boundary(initial_dimensions, neighbor)
    THEN [neighbor |-> neighbor, state |-> static_state, push |-> FALSE]
    ELSE IF ~is_finite(boundary)
    THEN IF default_state = None
         THEN [neighbor |-> neighbor, state |-> Panicked, push |-> FALSE]
         ELSE [neighbor |-> neighbor, state |-> default_state,
               push |-> should_wake(self, coord)]
    ELSE [neighbor |-> neighbor, state |-> None, push |-> FALSE]

\* the body of `for neighbor in self.neighborhood.neighbors(coord)`: the state the
\* neighbour contributes to the census (None: nothing) and whether it is pushed
VisitNeighbor(self, coord, neighbor) ==
    IF is_finite(boundary) /\ ~contains(initial_dimensions, neighbor)
    THEN [neighbor |-> neighbor, state |-> None, push |-> FALSE]
    ELSE IF static_state # None /\ DimensionBounds_boundary(initial_dimensions, neighbor)
    THEN [neighbor |-> neighbor, state |-> static_state, push |-> FALSE]
    ELSE IF current_get(self, neighbor) # None
    THEN [neighbor |-> neighbor, state |-> current_get(self, neighbor), push |-> FALSE]
    ELSE IF ~is_finite(boundary)
    THEN IF default_state = None
         THEN [neighbor |-> neighbor, state |-> Panicked, push |-> FALSE]
         ELSE [neighbor |-> neighbor, state |-> default_state,
               push |-> should_wake(self, coord)]
    ELSE [neighbor |-> neighbor, state |-> None, push |-> FALSE]

\* an insert that stores the default state like any other
next_insert_always(next, coord, state) == Insert(next, coord, state)

\* the guarded self.next_tick.insert of both branches: the default state is
\* never stored
next_insert(next, coord, state) ==
    IF default_state = None \/ state # default_state THEN Insert(next, coord, state)
    ELSE next

NoLast == [coord |-> <<>>, state |-> None, neighborhood |-> <<>>, reads |-> <<>>,
           result |-> None]

\* the single element of a singleton set: binds a computed value once
Only(S) == CHOOSE x \in S : TRUE

\* the reads of the `for neighbor in ...` loop, one per neighbour, in order
ReadNeighbors(self, coord) ==
    Only({Only({<<>> \o [i \in 1..Len(ns) |-> VisitNeighbor(me, coord, ns[i])] :
                  me \in {self}}) :
            ns \in {neighbors(neighborhood, coord)}})

\* the Vec `neighborhood` the loop builds
NeighborhoodStates(reads) ==
    LET contributing == SelectSeq(reads, LAMBDA r : r.state # None)
    IN  <<>> \o [i \in 1..Len(contributing) |-> contributing[i].state]

\* the neighbours the loop pushes onto the schedule
PushedNeighbors(reads) ==
    LET pushing == SelectSeq(reads, LAMBDA r : r.push)
    IN  <<>> \o [i \in 1..Len(pushing) |-> pushing[i].neighbor]

\* `let state = match self.current_tick.get(&coord)`
CellState(self, coord) ==
    IF current_get(self, coord) # None THEN current_get(self, coord) ELSE default_state

\* the end of an iteration: what the rule table says decides the write
WriteResult(self, coord, rest, reads, nbhd, state, result) ==
    IF \/ \E i \in 1..Len(reads) : reads[i].state = Panicked
       \/ state = None
       \/ result = Panicked
    THEN [panic |-> TRUE, next_tick |-> self.next_tick, schedule |-> rest,
          last |-> NoLast]
    ELSE [panic |-> FALSE,
          next_tick |-> next_insert(self.next_tick, coord,
                                    IF result # None THEN result ELSE state),
          schedule |-> rest \o PushedNeighbors(reads),
          last |-> [coord |-> coord, state |-> state, neighborhood |-> nbhd,
                    reads |-> reads, result |-> result]]

\* one iteration of `while !schedule.is_empty()`, for a non-empty schedule
ProcessCell(self, sched) ==
    Only({Only({Only({Only({WriteResult(me, coord, rest, reads, nbhd, state, result) :
                              result \in {evaluate(rules, state, nbhd)}}) :
                        nbhd \in {NeighborhoodStates(reads)},
                        state \in {CellState(me, coord)}}) :
                  reads \in {ReadNeighbors(me, coord)}}) :
            me \in {self},
            coord \in {sched[Len(sched)]},
            rest \in {SubSeq(sched, 1, Len(sched) - 1)}})

\* the whole `while !schedule.is_empty()` loop: the next_tick it leaves behind
RECURSIVE RunLoop(_, _)
RunLoop(self, sched) ==
    IF sched = <<>> THEN [panic |-> FALSE, next_tick |-> self.next_tick]
    ELSE LET step == ProcessCell(self, sched)
         IN  IF step.panic THEN [panic |-> TRUE, next_tick |-> Empty]
             ELSE RunLoop([self EXCEPT !.next_tick = step.next_tick], step.schedule)

Self == [current_tick |-> current_tick, next_tick |-> next_tick]

\* a get_state that prefers the value pending in next_tick
get_state_next_first(self, coord) ==
    IF coord \in DOMAIN self.next_tick THEN self.next_tick[coord]
    ELSE IF current_get(self, coord) # None THEN current_get(self, coord) ELSE default_state

\* Runtime::get_state
get_state(self, coord) ==
    IF current_get(self, coord) # None THEN current_get(self, coord) ELSE default_state

(***************************************************************************)
(* Inputs of the model.                                                    *)
(***************************************************************************)
SeedCoords == {<<x>> : x \in (-Extent)..(Extent + Magnitude)}

\* the generations seeding can build
SeedEnvs ==
    UNION {[cells -> StateIds] :
             cells \in {cs \in SUBSET SeedCoords : Cardinality(cs) <= MaxCells}}

\* the generations set_env is handed: the empty one and those of one cell
\* (set_cell adds the other cells)
SetEnvInputs == {environment \in SeedEnvs : Cardinality(DOMAIN environment) <= 1}

\* every order in which HashMap::iter can yield the keys
RECURSIVE Orders(_)
Orders(keys) ==
    IF keys = {} THEN {<<>>}
    ELSE UNION {{<<key>> \o order : order \in Orders(keys \ {key})} : key \in keys}

Boundaries == {Void, Wrap, Infinite, Static(NoName), Static("A")}

DefaultStates == {None} \cup StateIds

\* from A to B := neighborhood(B) >= 1
GrowthRules == <<TransitionRule("A", "B", BinOp("GteOp", Census(STATE_B), Num(1)))>>

\* a B without B neighbours dies, an A with exactly one B neighbour is born
LifeRules ==
    <<TransitionRule("B", "A", BinOp("LtOp", Census(STATE_B), Num(1))),
      TransitionRule("A", "B", BinOp("EqOp", Census(STATE_B), Num(1)))>>

\* several rules for the same from-state, some firing together
OverlapRules ==
    <<TransitionRule("A", "B", BinOp("GteOp", Census(STATE_B), Num(1))),
      TransitionRule("A", "A", Num(1)),
      TransitionRule("B", "B", BinOp("AndOp", Census(STATE_A), Census(STATE_B))),
      TransitionRule("B", "A", BinOp("SubOp", Num(2), Census(STATE_B)))>>

RuleBlocks == {GrowthRules, LifeRules, OverlapRules}

Neighborhoods == {<<UndirectedEdge("X", Magnitude)>>}

(***************************************************************************)
(* Specification.                                                          *)
(***************************************************************************)
\* Runtime::new
Init ==
    /\ initial_dimensions = <<<<-Extent, Extent>>>>
    /\ boundary \in Boundaries
    /\ default_state \in DefaultStates
    /\ static_state = (IF is_static(boundary) # NoName THEN state_map[is_static(boundary)]
                       ELSE None)
    /\ rules \in {from_block(block) : block \in RuleBlocks}
    /\ neighborhood \in Neighborhoods
    /\ current_tick = Empty
    /\ next_tick = Empty
    /\ tick = 0
    /\ pc = "idle"
    /\ schedule = <<>>
    /\ last = NoLast
    /\ delta = Empty
    /\ prior = Empty
    /\ call = NoCall
    /\ ret = NoReturn

\* Runtime::set_cell
SetCell(coord, state) ==
    /\ pc = "idle"
    /\ coord \in DOMAIN current_tick \/ Cardinality(DOMAIN current_tick) < MaxCells
    /\ current_tick' = Insert(current_tick, coord, state)
    /\ UNCHANGED <<next_tick, initial_dimensions, boundary, static_state, default_state,
                   rules, neighborhood, tick, pc, schedule, last,
                   delta, prior, call, ret>>

\* Runtime::set_env
SetEnv(environment) ==
    /\ pc = "idle"
    /\ current_tick' = environment
    /\ UNCHANGED <<next_tick, initial_dimensions, boundary, static_state, default_state,
                   rules, neighborhood, tick, pc, schedule, last,
                   delta, prior, call, ret>>

\* Runtime::run_tick, up to the loop: the schedule is the keys of current_tick
RunTickBegin ==
    /\ pc = "idle"
    /\ tick < MaxTicks
    /\ Cardinality(DOMAIN current_tick) <= MaxCells
    /\ schedule' \in Orders(DOMAIN current_tick)
    /\ pc' = "loop"
    /\ UNCHANGED <<current_tick, next_tick, initial_dimensions, boundary, static_state,
                   default_state, rules, neighborhood, tick, last,
                   delta, prior, call, ret>>

\* Runtime::run_tick, one iteration of the loop
RunTickStep ==
    /\ pc = "loop"
    /\ schedule # <<>>
    /\ \E step \in {ProcessCell(Self, schedule)} :
           /\ pc' = IF step.panic THEN "panic" ELSE "loop"
           /\ next_tick' = step.next_tick
           /\ schedule' = step.schedule
           /\ last' = step.last
    /\ UNCHANGED <<current_tick, initial_dimensions, boundary, static_state,
                   default_state, rules, neighborhood, tick,
                   delta, prior, call, ret>>

\* a tick that merges next_tick over current_tick instead of swapping
RunTickEndMerge ==
    /\ pc = "loop"
    /\ schedule = <<>>
    /\ current_tick' = [c \in DOMAIN current_tick \cup DOMAIN next_tick |->
                            IF c \in DOMAIN next_tick THEN next_tick[c] ELSE current_tick[c]]
    /\ next_tick' = Empty
    /\ tick' = tick + 1
    /\ pc' = "idle"
    /\ last' = NoLast
    /\ UNCHANGED <<initial_dimensions, boundary, static_state, default_state, rules,
                   neighborhood, schedule,
                   delta, prior, call, ret>>

\* an end of run_tick that swaps the buffers without replacing next_tick
RunTickEndSwapOnly ==
    /\ pc = "loop"
    /\ schedule = <<>>
    /\ current_tick' = next_tick
    /\ next_tick' = current_tick
    /\ tick' = tick + 1
    /\ pc' = "idle"
    /\ last' = NoLast
    /\ UNCHANGED <<initial_dimensions, boundary, static_state, default_state, rules,
                   neighborhood, schedule,
                   delta, prior, call, ret>>

\* Runtime::run_tick, after the loop: swap, clear next_tick, count the tick
RunTickEnd ==
    /\ pc = "loop"
    /\ schedule = <<>>
    /\ current_tick' = next_tick
    /\ next_tick' = Empty
    /\ tick' = tick + 1
    /\ pc' = "idle"
    /\ last' = NoLast
    /\ UNCHANGED <<initial_dimensions, boundary, static_state, default_state, rules,
                   neighborhood, schedule,
                   delta, prior, call, ret>>

Next ==
    \/ \E coord \in SeedCoords, state \in StateIds : SetCell(coord, state)
    \/ \E environment \in SetEnvInputs : SetEnv(environment)
    \/ RunTickBegin
    \/ RunTickStep
    \/ RunTickEnd

Spec == Init /\ [][Next]_vars

\* Runtime::new followed by seeding, then nothing but calls of run_tick.  The
\* rule table decides what is written, never what is scheduled: one table
\* with rules for both states is used
TickInit ==
    /\ initial_dimensions = <<<<-Extent, Extent>>>>
    /\ boundary \in Boundaries
    /\ default_state \in DefaultStates
    /\ static_state = (IF is_static(boundary) # NoName THEN state_map[is_static(boundary)]
                       ELSE None)
    /\ rules = from_block(LifeRules)
    /\ neighborhood \in Neighborhoods
    /\ current_tick \in SeedEnvs
    /\ next_tick = Empty
    /\ tick = 0
    /\ pc = "idle"
    /\ schedule = <<>>
    /\ last = NoLast
    /\ delta = Empty
    /\ prior = Empty
    /\ call = NoCall
    /\ ret = NoReturn

TickNext == RunTickBegin \/ RunTickStep \/ RunTickEnd

\* run_tick is an ordinary synchronous function call: once entered, the loop
\* keeps iterating and the code after it runs
TickFairSpec == TickInit /\ [][TickNext]_vars /\ WF_vars(RunTickStep) /\ WF_vars(RunTickEnd)

(***************************************************************************)
(* Properties.                                                             *)
(***************************************************************************)
\* the step that completes a run_tick
TickCompletes == pc = "loop" /\ pc' = "idle"

\* the coordinates one tick processes: the cells of the generation and, under
\* the Infinite boundary, their neighbours that hold no cell
WokenNeighbors(cur) ==
    IF is_finite(boundary) THEN {}
    ELSE {n \in UNION {{neighbors(neighborhood, c)[i] :
                           i \in 1..Len(neighbors(neighborhood, c))} : c \in DOMAIN cur} :
            n \notin DOMAIN cur}

ScheduledCells(cur) == DOMAIN cur \cup WokenNeighbors(cur)

\* what one cell alone writes when processed against the generation cur
CellAlone(cur, c) == ProcessCell([current_tick |-> cur, next_tick |-> Empty], <<c>>).next_tick

\* every scheduled cell computed independently from cur
SynchronousNext(cur) ==
    [c \in {d \in ScheduledCells(cur) : d \in DOMAIN CellAlone(cur, d)} |-> CellAlone(cur, c)[c]]

\* the state a neighbour holds in the prior generation, as the boundary presents it
PriorState(n) ==
    IF static_state # None /\ DimensionBounds_boundary(initial_dimensions, n) THEN static_state
    ELSE IF n \in DOMAIN current_tick THEN current_tick[n]
    ELSE default_state

\* C1: synchronous transition.  The generation stored by run_tick is the one
\* obtained by computing every scheduled cell independently from the generation
\* as it was before the tick, and every neighbour state read in the loop is the
\* prior-generation state, never one already written to next_tick.
C1_SynchronousTransition ==
    [][/\ TickCompletes => current_tick' = SynchronousNext(current_tick)
       /\ pc' = "loop" =>
            \A i \in 1..Len(last'.reads) :
                last'.reads[i].state # None =>
                    last'.reads[i].state = PriorState(last'.reads[i].neighbor)]_vars

\* a neighbour is read after it was processed and written to next_tick with a
\* state other than its prior one
C1_Witness ==
    /\ pc = "loop"
    /\ \E i \in 1..Len(last.reads) :
          LET n == last.reads[i].neighbor
          IN  /\ n \in DOMAIN next_tick
              /\ n \in DOMAIN current_tick
              /\ next_tick[n] # current_tick[n]
              /\ last.reads[i].state = current_tick[n]

\* C2: visit-order independence.  Whatever order the keys of current_tick are
\* scheduled in, the loop leaves the generation that run_tick stores.
C2_VisitOrderIndependence ==
    [][TickCompletes =>
        \A order \in Orders(DOMAIN current_tick) :
            LET outcome == RunLoop([current_tick |-> current_tick, next_tick |-> Empty], order)
            IN  ~outcome.panic /\ outcome.next_tick = current_tick']_vars

\* the cells of cur that have n in their neighbourhood
Wakers(cur, n) ==
    {c \in DOMAIN cur : \E i \in 1..Len(neighbors(neighborhood, c)) :
                            neighbors(neighborhood, c)[i] = n}

\* under the Infinite boundary a woken neighbour was just processed, pushed by
\* the last of at least two cells that each pushed it (the stack processes a
\* pushed neighbour before anything scheduled earlier), and it was written
C2_Witness ==
    /\ pc = "loop"
    /\ boundary = Infinite
    /\ last # NoLast
    /\ last.coord \notin DOMAIN current_tick
    /\ last.coord \in DOMAIN next_tick
    /\ Cardinality(Wakers(current_tick, last.coord)) >= 2
    /\ \A i \in 1..Len(schedule) : schedule[i] \notin Wakers(current_tick, last.coord)

\* the cells of a generation together with all their direct neighbours
Ring(cur) ==
    DOMAIN cur \cup
    UNION {{neighbors(neighborhood, c)[i] : i \in 1..Len(neighbors(neighborhood, c))} :
             c \in DOMAIN cur}

\* inside the loop: only a cell of the prior generation has pushed, and nothing
\* scheduled, processed or written lies beyond the ring
WithinOneRing(ring) ==
    /\ (\E i \in 1..Len(last.reads) : last.reads[i].push) => last.coord \in DOMAIN current_tick
    /\ \A i \in 1..Len(schedule) : schedule[i] \in ring
    /\ last # NoLast => last.coord \in ring
    /\ DOMAIN next_tick \subseteq ring

\* C3: Infinite-boundary wake-up guard.  A coordinate is pushed only while a
\* cell of the prior generation is processed, so every coordinate scheduled,
\* processed or written to next_tick by a tick is a prior cell or a direct
\* neighbour of one.
C3_WakeUpGuard ==
    pc = "loop" => \A ring \in {Ring(current_tick)} : WithinOneRing(ring)

\* a woken coordinate was processed, read an absent neighbour as the default
\* state and did not push it
C3_Witness ==
    /\ pc = "loop"
    /\ boundary = Infinite
    /\ last # NoLast
    /\ last.coord \notin DOMAIN current_tick
    /\ \E i \in 1..Len(last.reads) :
          /\ last.reads[i].neighbor \notin Ring(current_tick)
          /\ last.reads[i].state = default_state
          /\ ~last.reads[i].push

\* the step out of the loop swaps the buffers, clears next_tick and counts
\* the tick
SwapsAndCounts ==
    TickCompletes =>
        /\ schedule = <<>>
        /\ current_tick' = next_tick
        /\ next_tick' = Empty
        /\ tick' = tick + 1

EdgeCoords ==
    {c \in SeedCoords : contains(initial_dimensions, c)
                          /\ DimensionBounds_boundary(initial_dimensions, c)}

\* C6: static-edge invariance.  Under a Static boundary every edge coordinate
\* reads the same state before and after every run_tick, and no edge
\* coordinate is written into next_tick.
C6_StaticEdgeInvariance ==
    [][boundary.kind = "Static" =>
        /\ pc' = "loop" => \A c \in DOMAIN next_tick' : c \notin EdgeCoords
        /\ TickCompletes =>
              \A e \in EdgeCoords :
                  get_state([current_tick |-> current_tick', next_tick |-> next_tick'], e)
                      = get_state(Self, e)]_vars

\* C7: under Static with the name omitted, static_state is the default state
\* and a neighbour on the edge of initial_dimensions is read as the default
\* state.
C7_StaticPinsDefault ==
    boundary = Static(NoName) =>
        /\ static_state = default_state
        /\ pc = "loop" =>
              \A i \in 1..Len(last.reads) :
                  last.reads[i].neighbor \in EdgeCoords =>
                      last.reads[i].state = default_state

\* C8: under the Void boundary a neighbour outside initial_dimensions
\* contributes nothing to the census and is never pushed onto the schedule:
\* the census counts exactly the stored neighbours inside the bounds, and the
\* schedule holds nothing but cells of the generation.
C8_VoidOutsideIgnored ==
    (boundary = Void /\ pc = "loop") =>
        /\ \A i \in 1..Len(last.reads) :
              ~contains(initial_dimensions, last.reads[i].neighbor) =>
                  last.reads[i].state = None /\ ~last.reads[i].push
        /\ \A s \in StateIds :
              census_count(s, last.neighborhood) =
                  Cardinality({i \in 1..Len(last.reads) :
                      /\ contains(initial_dimensions, last.reads[i].neighbor)
                      /\ last.reads[i].neighbor \in DOMAIN current_tick
                      /\ current_tick[last.reads[i].neighbor] = s})
        /\ \A i \in 1..Len(schedule) : schedule[i] \in DOMAIN current_tick

\* under Void a cell inside the bounds was processed whose neighbour lies
\* outside the bounds and holds a stored state, while a default state exists
C8_Witness ==
    /\ boundary = Void
    /\ pc = "loop"
    /\ default_state # None
    /\ last # NoLast
    /\ contains(initial_dimensions, last.coord)
    /\ \E i \in 1..Len(last.reads) :
          /\ ~contains(initial_dimensions, last.reads[i].neighbor)
          /\ last.reads[i].neighbor \in DOMAIN current_tick

\* the torus mapping of the Wrap boundary: each component modulo the breadth
\* of its bound
bound_breadth(bound) == bound[2] - bound[1] + 1
WrapCoord(dims, c) ==
    [i \in 1..Len(c) |-> dims[i][1] + ((c[i] - dims[i][1]) % bound_breadth(dims[i]))]

\* C9: under the Wrap boundary a neighbour outside initial_dimensions is
\* mapped modulo the extent of the bounds, and the state stored at the wrapped
\* coordinate is what the loop counts.
C9_WrapMapsModulo ==
    (boundary = Wrap /\ pc = "loop") =>
        \A i \in 1..Len(last.reads) :
            ~contains(initial_dimensions, last.reads[i].neighbor) =>
                /\ contains(initial_dimensions,
                            WrapCoord(initial_dimensions, last.reads[i].neighbor))
                /\ last.reads[i].state =
                      current_get(Self, WrapCoord(initial_dimensions, last.reads[i].neighbor))

\* the rules of a block declared for a from-state that fire, by position
FiringRules(block, state, nbhd) ==
    {i \in 1..Len(block) :
        block[i].from = state /\ into_bool(rule_evaluate(block[i].root, nbhd))}

\* C10: first match wins.  For the state and neighbourhood of every processed
\* cell, Rules::evaluate returns the `to` state of the earliest declared rule
\* of that from-state that fires, and None when none fires.
C10_FirstMatchWins ==
    (pc = "loop" /\ last # NoLast) =>
        \A block \in RuleBlocks :
            from_block(block) = rules =>
                LET firing == FiringRules(block, last.state, last.neighborhood)
                IN  IF firing = {} THEN last.result = None
                    ELSE \E i \in firing :
                            /\ \A j \in firing : i <= j
                            /\ last.result = block[i].to

\* two rules declared for the state of the processed cell fire together and
\* name different `to` states
C10_Witness ==
    /\ pc = "loop"
    /\ last # NoLast
    /\ \E block \in RuleBlocks :
          /\ from_block(block) = rules
          /\ \E i, j \in FiringRules(block, last.state, last.neighborhood) :
                i < j /\ block[i].to # block[j].to /\ last.result = block[i].to


\* the coordinates get_state is probed with: those that can be seeded and
\* those either buffer holds
ProbeCoords == SeedCoords \cup DOMAIN current_tick \cup DOMAIN next_tick

\* the contents next_tick is varied over when get_state is probed
NextVariants(coord) ==
    {Empty, next_tick} \cup {Insert(Empty, coord, state) : state \in StateIds}

\* C12: get_state(coord) returns the state stored in current_tick for coord
\* if there is one, otherwise default_state if one is defined, otherwise None;
\* its result does not depend on next_tick.
C12_GetState ==
    \A coord \in ProbeCoords :
        /\ get_state(Self, coord) =
              (IF coord \in DOMAIN current_tick THEN current_tick[coord]
               ELSE IF default_state # None THEN default_state
               ELSE None)
        /\ \A pending \in NextVariants(coord) :
              get_state([Self EXCEPT !.next_tick = pending], coord) = get_state(Self, coord)

\* inside a tick a cell holds a new state in next_tick, get_state still
\* answers with its state in current_tick, and an absent coordinate reads as
\* the default state
C12_Witness ==
    /\ pc = "loop"
    /\ default_state # None
    /\ \E coord \in DOMAIN current_tick \cap DOMAIN next_tick :
          /\ next_tick[coord] # current_tick[coord]
          /\ get_state(Self, coord) = current_tick[coord]
    /\ \E coord \in SeedCoords \ DOMAIN current_tick :
          get_state(Self, coord) = default_state


\* the runtime as run_tick and run see it
SelfRuntime == [current_tick |-> current_tick, tick |-> tick, panic |-> FALSE]

\* a run_tick that swaps the buffers without counting the tick
run_tick_uncounted(rt) ==
    {LET loop == RunLoop([current_tick |-> rt.current_tick, next_tick |-> Empty], order)
     IN  IF loop.panic THEN [rt EXCEPT !.panic = TRUE]
         ELSE [current_tick |-> loop.next_tick, tick |-> rt.tick, panic |-> FALSE] :
       order \in Orders(DOMAIN rt.current_tick)}

\* Runtime::run_tick as one call: its outcomes over every iteration order of
\* current_tick
run_tick(rt) ==
    {LET loop == RunLoop([current_tick |-> rt.current_tick, next_tick |-> Empty], order)
     IN  IF loop.panic THEN [rt EXCEPT !.panic = TRUE]
         ELSE [current_tick |-> loop.next_tick, tick |-> rt.tick + 1, panic |-> FALSE] :
       order \in Orders(DOMAIN rt.current_tick)}

\* Runtime::run: `for t in 0..ticks { self.run_tick() }`, a panic ending the
\* call; followed while each run_tick starts on at most MaxCells cells
RECURSIVE run(_, _)
run(rt, ticks) ==
    IF ticks = 0 \/ rt.panic THEN {rt}
    ELSE IF Cardinality(DOMAIN rt.current_tick) > MaxCells THEN {}
    ELSE UNION {run(outcome, ticks - 1) : outcome \in run_tick(rt)}

\* every step that is not the completion of a run_tick (set_cell, set_env,
\* the iterations of the loop) leaves the counter alone, the completion
\* counts one
CountsCompletedTicks ==
    IF TickCompletes THEN tick' = tick + 1 ELSE tick' = tick

\* run(n) called between two operations returns with the counter n higher
RunCounts ==
    pc = "idle" =>
        \A n \in 0..(MaxTicks - tick) :
            \A outcome \in run(SelfRuntime, n) :
                ~outcome.panic => outcome.tick = tick + n

\* C13: tick counter.  tick is 0 for a new runtime, every completed run_tick
\* increases it by exactly 1, run(n) increases it by exactly n, and no other
\* operation changes it.
C13_TickCounter ==
    /\ tick = 0
    /\ [][CountsCompletedTicks]_vars
    /\ []RunCounts

\* ticks have completed, cells were set in between, and a further run of one
\* tick on a non-empty generation returns with the counter one higher
C13_Witness ==
    /\ pc = "idle"
    /\ tick = MaxTicks - 1
    /\ current_tick # Empty
    /\ \E outcome \in run(SelfRuntime, 1) :
          ~outcome.panic /\ outcome.tick = MaxTicks /\ outcome.current_tick # Empty


(***************************************************************************)
(* The 1D propagation run of runtime_propogate_infinite_boundary_1d.       *)
(***************************************************************************)
\* from A to B := neighborhood(A) >= 1
PropagationRules == <<TransitionRule("A", "B", BinOp("GteOp", Census(STATE_A), Num(1)))>>

\* Runtime::new with the bounds hint [-Extent, Extent], the Infinite boundary
\* and default state A, then set_cell(x = 0, B)
PropagateInit ==
    /\ initial_dimensions = <<<<-Extent, Extent>>>>
    /\ boundary = Infinite
    /\ default_state = STATE_A
    /\ static_state = None
    /\ rules = from_block(PropagationRules)
    /\ neighborhood = <<UndirectedEdge("X", Magnitude)>>
    /\ current_tick = Insert(Empty, <<0>>, STATE_B)
    /\ next_tick = Empty
    /\ tick = 0
    /\ pc = "idle"
    /\ schedule = <<>>
    /\ last = NoLast
    /\ delta = Empty
    /\ prior = Empty
    /\ call = NoCall
    /\ ret = NoReturn

\* Runtime::run_tick, up to the loop, in the propagation run: the generation
\* grows by two cells a tick, so only the number of ticks is bounded, and one
\* tick more than MaxTicks is run to pass the bounds hint
PropagateTickBegin ==
    /\ pc = "idle"
    /\ tick <= MaxTicks
    /\ schedule' \in Orders(DOMAIN current_tick)
    /\ pc' = "loop"
    /\ UNCHANGED <<current_tick, next_tick, initial_dimensions, boundary, static_state,
                   default_state, rules, neighborhood, tick, last,
                   delta, prior, call, ret>>

PropagateNext == PropagateTickBegin \/ RunTickStep \/ RunTickEnd

PropagateSpec == PropagateInit /\ [][PropagateNext]_vars

\* the coordinates read after each tick: the interval the run can reach and
\* a margin around it
PropagateProbes == {<<x>> : x \in (-(MaxTicks + 1 + Magnitude))..(MaxTicks + 1 + Magnitude)}

\* C14: 1D propagation.  After t ticks exactly the coordinates in [-t, t] are
\* stored in state B, also beyond the bounds hint, and every other coordinate
\* reads as A.
C14_Propagation ==
    pc = "idle" =>
        /\ {c \in DOMAIN current_tick : current_tick[c] = STATE_B} =
              {<<x>> : x \in (-tick)..tick}
        /\ \A c \in PropagateProbes :
              get_state(Self, c) = (IF c[1] \in (-tick)..tick THEN STATE_B ELSE STATE_A)

\* B has passed the bounds hint
C14_Witness ==
    /\ pc = "idle"
    /\ tick > Extent
    /\ get_state(Self, <<tick>>) = STATE_B
    /\ get_state(Self, <<-tick>>) = STATE_B
    /\ get_state(Self, <<tick + 1>>) = STATE_A


(***************************************************************************)
(* Conway's Life on the naive Runtime: a single live cell.                 *)
(***************************************************************************)
\* the states of the Life scenarios are the two state ids
DEAD == STATE_A
ALIVE == STATE_B

\* the Moore neighbourhood as a rule list: the four axis neighbours, then the
\* four corners as x +- 1 compounded with y +- 1
MooreRules ==
    <<UndirectedEdge("All", Magnitude),
      Compound(<<UndirectedEdge("X", Magnitude), UndirectedEdge("Y", Magnitude)>>)>>

\* a dead cell with exactly 3 live neighbours revives; a live cell with fewer
\* than 2 or more than 3 live neighbours dies
ConwayRules ==
    <<TransitionRule("A", "B", BinOp("EqOp", Census(ALIVE), Num(3))),
      TransitionRule("B", "A", BinOp("OrOp", BinOp("LtOp", Census(ALIVE), Num(2)),
                                             BinOp("GtOp", Census(ALIVE), Num(3))))>>

\* the coordinates of the 2D bounds [-Extent, Extent] x [-Extent, Extent]
PlaneCoords == {<<x, y>> : x \in (-Extent)..Extent, y \in (-Extent)..Extent}

\* Runtime::new on a 2D plane with default state dead, then set_cell of one
\* live cell
SingleCellInit ==
    /\ initial_dimensions = <<<<-Extent, Extent>>, <<-Extent, Extent>>>>
    /\ boundary \in Boundaries
    /\ default_state = DEAD
    /\ static_state = (IF is_static(boundary) # NoName THEN state_map[is_static(boundary)]
                       ELSE None)
    /\ rules = from_block(ConwayRules)
    /\ neighborhood = MooreRules
    /\ current_tick \in {Insert(Empty, origin, ALIVE) : origin \in PlaneCoords}
    /\ next_tick = Empty
    /\ tick = 0
    /\ pc = "idle"
    /\ schedule = <<>>
    /\ last = NoLast
    /\ delta = Empty
    /\ prior = Empty
    /\ call = NoCall
    /\ ret = NoReturn

SingleCellSpec == SingleCellInit /\ [][TickNext]_vars

\* C17: single cell dies.  With Conway's rules, default state dead and the
\* Moore neighbourhood, when the only live cell is alone, no neighbour woken
\* around it is written alive during the tick and after the tick no cell is
\* alive.
C17_SingleCellDies ==
    /\ pc = "loop" => \A c \in DOMAIN next_tick : next_tick[c] # ALIVE
    /\ (pc = "loop" /\ last # NoLast /\ last.coord \notin DOMAIN current_tick) =>
            last.result # ALIVE
    /\ (pc = "idle" /\ tick >= 1) =>
            /\ \A c \in DOMAIN current_tick : current_tick[c] # ALIVE
            /\ \A c \in PlaneCoords : get_state(Self, c) = DEAD

\* the live cell and its eight woken neighbours have all been processed, the
\* last of them a woken neighbour that counted the one live cell, and a tick
\* has left no cell
C17_Witness ==
    /\ pc = "loop"
    /\ boundary = Infinite
    /\ schedule = <<>>
    /\ last.coord \notin DOMAIN current_tick
    /\ Len(last.neighborhood) = 8
    /\ census_count(ALIVE, last.neighborhood) = 1
    /\ last.state = DEAD
    /\ next_tick = Empty
    /\ current_tick = Insert(Empty, <<0, 0>>, ALIVE)

(***************************************************************************)
(* The generic runtime: Ruleset and its expression tree                    *)
(* (src/src/runtime/state.rs), FixedGrid                                   *)
(* (src/src/runtime/environment/naive.rs) and SynchronousRuntime           *)
(* (src/src/runtime/mod.rs).  current_tick, next_tick and neighborhood are *)
(* the fields of the FixedGrid, rules is Ruleset.rules; pc is "env" while  *)
(* the caller owns the grid, then "idle", "loop" or "panic" once           *)
(* SynchronousRuntime::new has taken it.                                   *)
(***************************************************************************)
\* LoafType
LoafBoolean(b) == [kind |-> "Boolean", v |-> IF b THEN 1 ELSE 0]
LoafInteger(i) == [kind |-> "Integer", v |-> i]

\* a panic!() raised while a rule is evaluated
LoafPanic == [kind |-> "Panic", v |-> 0]

\* derived PartialOrd / Ord of LoafType: variants in declaration order
\* (Boolean before Integer), then the payload
LoafVariantIndex(value) == IF value.kind = "Boolean" THEN 0 ELSE 1
LoafType_lt(lhs, rhs) ==
    \/ LoafVariantIndex(lhs) < LoafVariantIndex(rhs)
    \/ LoafVariantIndex(lhs) = LoafVariantIndex(rhs) /\ lhs.v < rhs.v

\* the nodes of the expression tree: a LoafType literal, CensusNode and the
\* comparison and logic nodes of binary_operations!
LiteralNode(value) == [node |-> "LoafType", value |-> value, lhs |-> <<>>, rhs |-> <<>>]
CensusNode(state) == [node |-> "CensusNode", value |-> LoafInteger(state), lhs |-> <<>>, rhs |-> <<>>]
BinaryNode(node, lhs, rhs) == [node |-> node, value |-> LoafInteger(0), lhs |-> <<lhs>>, rhs |-> <<rhs>>]

\* Neighborhood::count of a Vec of states
count(nbhd, state) == Cardinality({i \in 1..Len(nbhd) : nbhd[i] = state})

\* checked_add / checked_sub / checked_mul / checked_div followed by expect
checked(n) == IF fits_isize(n) THEN LoafInteger(n) ELSE LoafPanic

\* the closures of binary_operations!; `&&` and `||` convert the right operand
\* to bool only when the left one does not decide
binary_logic(node, lhs, rhs) ==
    IF lhs = LoafPanic \/ rhs = LoafPanic THEN LoafPanic
    ELSE CASE node \in {"AddNode", "SubNode", "MulNode", "DivNode"} ->
                IF lhs.kind # "Integer" \/ rhs.kind # "Integer" THEN LoafPanic
                ELSE IF node = "DivNode" /\ rhs.v = 0 THEN LoafPanic
                ELSE checked(CASE node = "AddNode" -> lhs.v + rhs.v
                               [] node = "SubNode" -> lhs.v - rhs.v
                               [] node = "MulNode" -> lhs.v * rhs.v
                               [] OTHER -> TruncDiv(lhs.v, rhs.v))
           [] node = "EqNode" -> LoafBoolean(lhs = rhs)
           [] node = "NeqNode" -> LoafBoolean(lhs # rhs)
           [] node = "GtNode" -> LoafBoolean(LoafType_lt(rhs, lhs))
           [] node = "GteNode" -> LoafBoolean(~LoafType_lt(lhs, rhs))
           [] node = "LtNode" -> LoafBoolean(LoafType_lt(lhs, rhs))
           [] node = "LteNode" -> LoafBoolean(~LoafType_lt(rhs, lhs))
           [] node = "AndNode" ->
                IF lhs.kind # "Boolean" THEN LoafPanic
                ELSE IF lhs.v = 0 THEN LoafBoolean(FALSE)
                ELSE IF rhs.kind # "Boolean" THEN LoafPanic
                ELSE LoafBoolean(rhs.v = 1)
           [] OTHER ->
                IF lhs.kind # "Boolean" THEN LoafPanic
                ELSE IF lhs.v = 1 THEN LoafBoolean(TRUE)
                ELSE IF rhs.kind # "Boolean" THEN LoafPanic
                ELSE LoafBoolean(rhs.v = 1)

\* ASTNode::evaluate
RECURSIVE ASTNode_evaluate(_, _)
ASTNode_evaluate(node, nbhd) ==
    CASE node.node = "LoafType" -> node.value
      [] node.node = "CensusNode" -> LoafInteger(count(nbhd, node.value.v))
      [] OTHER -> binary_logic(node.node, ASTNode_evaluate(node.lhs[1], nbhd),
                               ASTNode_evaluate(node.rhs[1], nbhd))

\* ASTRoot::evaluate: the value of the tree converted to bool (1 / 0), a
\* panic when it is not a Boolean
ASTRoot_evaluate(root, nbhd) ==
    LET value == ASTNode_evaluate(root, nbhd)
    IN  IF value.kind # "Boolean" THEN Panicked ELSE value.v

\* Ruleset::new: the (from, (rule, to)) pairs collected into a HashMap, a
\* later pair replacing an earlier one of the same from-state
Ruleset_new(pairs) ==
    [from \in {pairs[i].from : i \in 1..Len(pairs)} |->
        LET i == CHOOSE i \in 1..Len(pairs) :
                    /\ pairs[i].from = from
                    /\ \A j \in (i + 1)..Len(pairs) : pairs[j].from # from
        IN  [rule |-> pairs[i].rule, to |-> pairs[i].to]]

\* an entry of the Vec handed to Ruleset::new
RulePair(from, rule, to) == [from |-> from, rule |-> rule, to |-> to]

\* a transition whose rule fires whenever the state has one
Ruleset_transition_always(table, from_state, nbhd) ==
    IF from_state \notin DOMAIN table THEN Panicked ELSE table[from_state].to

\* Ruleset::transition: `self.rules[&from_state]` panics when the state has
\* no rule; Some(to_state) when the rule evaluates to true, None otherwise
Ruleset_transition(table, from_state, nbhd) ==
    IF from_state \notin DOMAIN table THEN Panicked
    ELSE LET fired == ASTRoot_evaluate(table[from_state].rule, nbhd)
         IN  IF fired = Panicked THEN Panicked
             ELSE IF fired = 1 THEN table[from_state].to ELSE None

\* impl Add for Coordinate1D / 2D / 3D
coord_add(c, offset) == [i \in 1..Len(c) |-> c[i] + offset[i]]

\* the FixedGrid as its methods see it
Grid == [current_tick |-> current_tick, next_tick |-> next_tick]

\* FixedGrid::from_hashmap: the hashmap, and state 0 for every coordinate of
\* the bounds it does not hold
FixedGrid_from_hashmap(hashmap, bounds) ==
    [current_tick |-> [c \in DOMAIN hashmap \cup bounds |->
                          IF c \in DOMAIN hashmap THEN hashmap[c] ELSE 0],
     next_tick |-> Empty]

\* FixedGrid::new: state 0 for every coordinate of the bounds
FixedGrid_new(bounds) == [current_tick |-> [c \in bounds |-> 0], next_tick |-> Empty]

\* a set_state that writes the visible buffer
FixedGrid_set_state_current(self, coord, state) ==
    [self EXCEPT !.current_tick = Insert(self.current_tick, coord, state)]

\* FixedGrid::set_state
FixedGrid_set_state(self, coord, state) ==
    [self EXCEPT !.next_tick = Insert(self.next_tick, coord, state)]

\* FixedGrid::get_state
FixedGrid_get_state(self, coord) ==
    IF coord \in DOMAIN self.current_tick THEN self.current_tick[coord] ELSE None

\* Option<Vec<usize>>::None
NoNeighborhood == [some |-> FALSE, states |-> <<>>]

\* FixedGrid::get_neighborhood: None for a coordinate the grid does not hold,
\* else the states of the neighbours it holds, in the order of the offsets
FixedGrid_get_neighborhood(self, coord) ==
    IF coord \notin DOMAIN self.current_tick THEN NoNeighborhood
    ELSE LET present == SelectSeq(neighborhood,
                                  LAMBDA o : coord_add(coord, o) \in DOMAIN self.current_tick)
         IN  [some |-> TRUE,
              states |-> [i \in 1..Len(present) |->
                             self.current_tick[coord_add(coord, present[i])]]]

\* a tick in which an entry of current_tick survives a pending write
FixedGrid_tick_keep_current(self) ==
    [current_tick |-> [c \in DOMAIN self.current_tick \cup DOMAIN self.next_tick |->
                          IF c \in DOMAIN self.current_tick THEN self.current_tick[c]
                          ELSE self.next_tick[c]],
     next_tick |-> Empty]

\* a tick that publishes next_tick alone
FixedGrid_tick_swap_only(self) == [current_tick |-> self.next_tick, next_tick |-> Empty]

\* FixedGrid::tick: every entry of current_tick that next_tick lacks is moved
\* into next_tick, then the buffers are swapped; the drained map is the new
\* next_tick
FixedGrid_tick(self) ==
    [current_tick |-> [c \in DOMAIN self.current_tick \cup DOMAIN self.next_tick |->
                          IF c \in DOMAIN self.next_tick THEN self.next_tick[c]
                          ELSE self.current_tick[c]],
     next_tick |-> Empty]

\* SynchronousRuntime::run_tick, the body of `for cell in get_schedule()`: the
\* two expect()s, the transition, and set_state with delta.insert when it
\* returns Some
TransitionCell(self, dlt, cell) ==
    LET state == FixedGrid_get_state(self, cell)
        nbhd == FixedGrid_get_neighborhood(self, cell)
    IN  IF state = None \/ ~nbhd.some
        THEN [panic |-> TRUE, grid |-> self, delta |-> dlt]
        ELSE LET to == Ruleset_transition(rules, state, nbhd.states)
             IN  IF to = Panicked THEN [panic |-> TRUE, grid |-> self, delta |-> dlt]
                 ELSE IF to = None THEN [panic |-> FALSE, grid |-> self, delta |-> dlt]
                 ELSE [panic |-> FALSE, grid |-> FixedGrid_set_state(self, cell, to),
                       delta |-> Insert(dlt, cell, to)]

(***************************************************************************)
(* Inputs of the generic runtime.                                          *)
(***************************************************************************)
\* the coordinates of the FixedGrid tests: coord3, coord1, coord2
GridBounds == {<<-1>>, <<0>>, <<1>>}

\* the coordinates set_state is called with: those of the grid and one the
\* grid does not hold
WriteCoords == GridBounds \cup {<<2>>}

\* the neighbourhood of the FixedGrid tests: the offsets coord2, coord3
EdgeOffsets == <<<<1>>, <<-1>>>>

\* the hashmaps from_hashmap is handed: any states for any coordinates of the
\* bounds
GridHashmaps == UNION {[cells -> StateIds] : cells \in SUBSET GridBounds}

\* revive: census(ALIVE) = 3; die: census(ALIVE) < 2 or census(ALIVE) > 3
ConwayRuleset ==
    <<RulePair(DEAD, BinaryNode("EqNode", CensusNode(ALIVE), LiteralNode(LoafInteger(3))), ALIVE),
      RulePair(ALIVE,
               BinaryNode("OrNode",
                          BinaryNode("LtNode", CensusNode(ALIVE), LiteralNode(LoafInteger(2))),
                          BinaryNode("GtNode", CensusNode(ALIVE), LiteralNode(LoafInteger(3)))),
               DEAD)>>

\* a ruleset with a rule for dead cells only
BirthRuleset ==
    <<RulePair(DEAD, BinaryNode("GteNode", CensusNode(ALIVE), LiteralNode(LoafInteger(1))), ALIVE)>>

\* a ruleset whose rule for live cells maps alive to alive
SurvivalRuleset ==
    <<RulePair(DEAD, BinaryNode("EqNode", CensusNode(ALIVE), LiteralNode(LoafInteger(1))), ALIVE),
      RulePair(ALIVE, BinaryNode("GteNode", CensusNode(ALIVE), LiteralNode(LoafInteger(1))), ALIVE)>>

Rulesets == {ConwayRuleset, BirthRuleset, SurvivalRuleset}

\* the keys in ascending order
RECURSIVE Ascending(_)
Ascending(keys) ==
    IF keys = {} THEN <<>>
    ELSE LET least == CHOOSE k \in keys :
                         \A other \in keys \ {k} :
                            \E i \in 1..Len(k) :
                                /\ k[i] < other[i]
                                /\ \A j \in 1..(i - 1) : k[j] = other[j]
         IN  <<least>> \o Ascending(keys \ {least})

\* the orders in which get_schedule's iterator over the keys of current_tick
\* is followed: every order for a grid of at most MaxCells + 2 cells, the
\* ascending and the descending one for a larger grid
ScheduleOrders(keys) ==
    IF Cardinality(keys) <= MaxCells + 2 THEN Orders(keys)
    ELSE {Ascending(keys), Reverse(Ascending(keys))}

\* the fields of the naive Runtime play no part in the generic runtime
NoNaiveRuntime ==
    /\ initial_dimensions = <<>>
    /\ boundary = Void
    /\ static_state = None
    /\ default_state = None
    /\ tick = 0
    /\ last = NoLast

(***************************************************************************)
(* Specification of the generic runtime.                                   *)
(***************************************************************************)
\* FixedGrid::from_hashmap in the hands of the caller
GridInit ==
    /\ NoNaiveRuntime
    /\ \E hashmap \in GridHashmaps :
          /\ current_tick = FixedGrid_from_hashmap(hashmap, GridBounds).current_tick
          /\ next_tick = FixedGrid_from_hashmap(hashmap, GridBounds).next_tick
    /\ neighborhood = EdgeOffsets
    /\ rules = Empty
    /\ pc = "env"
    /\ schedule = <<>>
    /\ delta = Empty
    /\ prior = Empty
    /\ call = NoCall
    /\ ret = NoReturn

\* FixedGrid::set_state called by the owner of the grid
SetState(coord, state) ==
    /\ pc = "env"
    /\ coord \in DOMAIN next_tick \/ Cardinality(DOMAIN next_tick) < MaxCells
    /\ current_tick' = FixedGrid_set_state(Grid, coord, state).current_tick
    /\ next_tick' = FixedGrid_set_state(Grid, coord, state).next_tick
    /\ UNCHANGED <<initial_dimensions, boundary, static_state, default_state, rules,
                   neighborhood, tick, pc, schedule, last, delta, prior, call, ret>>

\* FixedGrid::tick called by the owner of the grid
GridTick ==
    /\ pc = "env"
    /\ current_tick' = FixedGrid_tick(Grid).current_tick
    /\ next_tick' = FixedGrid_tick(Grid).next_tick
    /\ UNCHANGED <<initial_dimensions, boundary, static_state, default_state, rules,
                   neighborhood, tick, pc, schedule, last, delta, prior, call, ret>>

\* SynchronousRuntime::new: the runtime takes the ruleset and the grid
RuntimeNew(pairs) ==
    /\ pc = "env"
    /\ rules' = Ruleset_new(pairs)
    /\ pc' = "idle"
    /\ UNCHANGED <<current_tick, next_tick, initial_dimensions, boundary, static_state,
                   default_state, neighborhood, tick, schedule, last, delta, prior, call, ret>>

\* SynchronousRuntime::run_tick, up to the loop: an empty delta and the
\* schedule of the grid
SyncRunTickBegin ==
    /\ pc = "idle"
    /\ schedule' \in ScheduleOrders(DOMAIN current_tick)
    /\ delta' = Empty
    /\ prior' = current_tick
    /\ pc' = "loop"
    /\ UNCHANGED <<current_tick, next_tick, initial_dimensions, boundary, static_state,
                   default_state, rules, neighborhood, tick, last, call, ret>>

\* SynchronousRuntime::run_tick, one iteration of the loop
SyncRunTickStep ==
    /\ pc = "loop"
    /\ schedule # <<>>
    /\ \E step \in {TransitionCell(Grid, delta, Head(schedule))} :
          /\ pc' = IF step.panic THEN "panic" ELSE "loop"
          /\ current_tick' = step.grid.current_tick
          /\ next_tick' = step.grid.next_tick
          /\ delta' = step.delta
    /\ schedule' = Tail(schedule)
    /\ UNCHANGED <<initial_dimensions, boundary, static_state, default_state, rules,
                   neighborhood, tick, last, prior, call, ret>>

\* SynchronousRuntime::run_tick, after the loop: environment.tick(), and
\* delta is returned
SyncRunTickEnd ==
    /\ pc = "loop"
    /\ schedule = <<>>
    /\ current_tick' = FixedGrid_tick(Grid).current_tick
    /\ next_tick' = FixedGrid_tick(Grid).next_tick
    /\ pc' = "idle"
    /\ UNCHANGED <<initial_dimensions, boundary, static_state, default_state, rules,
                   neighborhood, tick, schedule, last, delta, prior, call, ret>>

GridNext ==
    \/ \E coord \in WriteCoords, state \in StateIds : SetState(coord, state)
    \/ GridTick
    \/ \E pairs \in Rulesets : RuntimeNew(pairs)
    \/ SyncRunTickBegin
    \/ SyncRunTickStep
    \/ SyncRunTickEnd

GridSpec == GridInit /\ [][GridNext]_vars

(***************************************************************************)
(* Conway's Life on the generic runtime: the scenarios of tests/conway.rs. *)
(***************************************************************************)
\* the offsets the Moore neighbourhood expands to: the four axis neighbours
\* and the four corners
MooreOffsets ==
    <<<<1, 0>>, <<0, 1>>, <<-1, 0>>, <<0, -1>>, <<1, 1>>, <<-1, 1>>, <<-1, -1>>, <<1, -1>>>>

\* BoundingBox2D as the set its iterator yields
BoundingBox2D(x, y) == {<<i, j>> : i \in x[1]..x[2], j \in y[1]..y[2]}

\* bounds and initial_states of test_trivial_blinker_oscillator
BlinkerBounds == BoundingBox2D(<<-2, 2>>, <<-2, 2>>)
BlinkerRow == {<<1, 0>>, <<0, 0>>, <<-1, 0>>}
BlinkerColumn == {<<0, 1>>, <<0, 0>>, <<0, -1>>}

\* bounds and initial_states of test_trivial_block_still_life
BlockBounds == BoundingBox2D(<<-1, 2>>, <<-1, 2>>)
BlockCells == {<<0, 0>>, <<1, 0>>, <<1, 1>>, <<0, 1>>}

\* initial_states: the given cells alive
AliveAt(cells) == [c \in cells |-> ALIVE]

\* conway_runtime(bounds, initial_states) for the blinker and for the block
ConwayInit ==
    /\ NoNaiveRuntime
    /\ \E scenario \in {<<BlinkerRow, BlinkerBounds>>, <<BlockCells, BlockBounds>>} :
          /\ current_tick =
                FixedGrid_from_hashmap(AliveAt(scenario[1]), scenario[2]).current_tick
          /\ next_tick = FixedGrid_from_hashmap(AliveAt(scenario[1]), scenario[2]).next_tick
    /\ neighborhood = MooreOffsets
    /\ rules = Ruleset_new(ConwayRuleset)
    /\ pc = "idle"
    /\ schedule = <<>>
    /\ delta = Empty
    /\ prior = Empty
    /\ call = NoCall
    /\ ret = NoReturn

ConwayNext == SyncRunTickBegin \/ SyncRunTickStep \/ SyncRunTickEnd

ConwaySpec == ConwayInit /\ [][ConwayNext]_vars

\* the live cells of a grid
Live(grid) == {c \in DOMAIN grid : grid[c] = ALIVE}

\* a run_tick has returned
Returned == pc = "idle" /\ prior # Empty

\* the runtime was built on the grid of these bounds
BuiltOn(bounds) == DOMAIN (IF prior = Empty THEN current_tick ELSE prior) = bounds

\* the delta that turns the cells in `dying` dead and those in `born` alive
Flip(dying, born) == [c \in dying \cup born |-> IF c \in born THEN ALIVE ELSE DEAD]

\* C15: blinker oscillator.  On the grid [-2, 2] x [-2, 2] the live cells are
\* the row {(-1,0), (0,0), (1,0)} or the column {(0,-1), (0,0), (0,1)} between
\* any two ticks; a run_tick from the row yields the column and returns the
\* delta {(1,0) -> dead, (-1,0) -> dead, (0,1) -> alive, (0,-1) -> alive}, a
\* run_tick from the column yields the row and returns the opposite delta, so
\* the grid has period 2 at every tick.
C15_Blinker ==
    (pc = "idle" /\ BuiltOn(BlinkerBounds)) =>
        /\ DOMAIN current_tick = BlinkerBounds
        /\ prior = Empty => Live(current_tick) = BlinkerRow
        /\ (Returned /\ Live(prior) = BlinkerRow) =>
              /\ Live(current_tick) = BlinkerColumn
              /\ delta = Flip({<<1, 0>>, <<-1, 0>>}, {<<0, 1>>, <<0, -1>>})
        /\ (Returned /\ Live(prior) = BlinkerColumn) =>
              /\ Live(current_tick) = BlinkerRow
              /\ delta = Flip({<<0, 1>>, <<0, -1>>}, {<<1, 0>>, <<-1, 0>>})
        /\ Returned => Live(prior) \in {BlinkerRow, BlinkerColumn}

\* the second run_tick has returned the blinker to its initial row
C15_Witness ==
    /\ Returned
    /\ DOMAIN current_tick = BlinkerBounds
    /\ Live(prior) = BlinkerColumn
    /\ Live(current_tick) = BlinkerRow
    /\ Cardinality(DOMAIN delta) = 4

\* C16: block still-life.  On the grid [-1, 2] x [-1, 2] with the live block
\* {(0,0), (1,0), (0,1), (1,1)} every run_tick returns an empty delta and
\* leaves the grid equal to the initial one.
C16_Block ==
    (pc = "idle" /\ BuiltOn(BlockBounds)) =>
        /\ current_tick = FixedGrid_from_hashmap(AliveAt(BlockCells), BlockBounds).current_tick
        /\ delta = Empty
        /\ next_tick = Empty

\* a run_tick over the block has returned
C16_Witness ==
    /\ Returned
    /\ DOMAIN current_tick = BlockBounds
    /\ Live(prior) = BlockCells
    /\ Live(current_tick) = BlockCells
    /\ delta = Empty

\* the coordinates whose state after the most recent run_tick differs from
\* the one before it
Changed == {c \in DOMAIN current_tick : c \notin DOMAIN prior \/ current_tick[c] # prior[c]}

\* C18: the delta returned by SynchronousRuntime::run_tick is exactly the
\* coordinates whose state after the tick differs from the state before it,
\* each paired with its new state; a cell whose rule fired without changing
\* its state is not in the delta.
C18_DeltaIsExactChange ==
    Returned => delta = [c \in Changed |-> current_tick[c]]

\* the FixedGrid after the step
GridAfter == [current_tick |-> current_tick', next_tick |-> next_tick']

\* the coordinates the grid is read at: those that can be written and their
\* neighbours
ReadCoords == WriteCoords \cup {coord_add(c, EdgeOffsets[i]) : c \in WriteCoords, i \in 1..Len(EdgeOffsets)}

\* get_state and get_neighborhood answer after the step as before it
SameReads ==
    \A coord \in ReadCoords :
        /\ FixedGrid_get_state(GridAfter, coord) = FixedGrid_get_state(Grid, coord)
        /\ FixedGrid_get_neighborhood(GridAfter, coord) = FixedGrid_get_neighborhood(Grid, coord)

\* the step is a call of FixedGrid::tick, by the owner of the grid or at the
\* end of run_tick
TickStep == GridTick \/ SyncRunTickEnd

\* C19: current/next discipline of the FixedGrid.  set_state, by the owner
\* and inside run_tick, writes only next_tick; every step that is not a tick()
\* leaves current_tick, and with it what get_state and get_neighborhood
\* return at every coordinate, unchanged: the swap in tick() is the only
\* point where a written state becomes visible.
C19_CurrentNextDiscipline ==
    [][~TickStep => (current_tick' = current_tick /\ SameReads)]_vars

\* a state is pending for a cell whose visible state is another one, and a
\* neighbour still counts the visible state
C19_Witness ==
    \E coord \in DOMAIN current_tick \cap DOMAIN next_tick :
        /\ next_tick[coord] = ALIVE
        /\ FixedGrid_get_state(Grid, coord) = DEAD
        /\ \E other \in DOMAIN current_tick :
              /\ coord_add(other, EdgeOffsets[1]) = coord
              /\ count(FixedGrid_get_neighborhood(Grid, other).states, ALIVE) = 0

\* what tick() leaves: every pending write visible, every other cell as it
\* was, no coordinate lost, none added but those written, next_tick empty
Published ==
    /\ \A c \in DOMAIN next_tick : current_tick'[c] = next_tick[c]
    /\ \A c \in DOMAIN current_tick \ DOMAIN next_tick : current_tick'[c] = current_tick[c]
    /\ DOMAIN current_tick' = DOMAIN current_tick \cup DOMAIN next_tick
    /\ DOMAIN next_tick \subseteq DOMAIN current_tick => DOMAIN current_tick' = DOMAIN current_tick
    /\ next_tick' = Empty

\* a set_state leaves its state pending for its coordinate, replacing an
\* earlier one
LastWritePending ==
    \A coord \in WriteCoords, state \in StateIds :
        SetState(coord, state) => next_tick'[coord] = state

\* C20: FixedGrid::tick publishes the pending writes and preserves everything
\* else.  After tick() a written coordinate holds the last state written to
\* it, every other coordinate keeps its state, the set of coordinates is
\* unchanged when only coordinates of the grid were written, and next_tick
\* is empty.
C20_TickPublishes ==
    [][(TickStep => Published) /\ LastWritePending]_vars

\* a run_tick has returned whose tick() published a state set_state had left
\* pending (it is not in the delta), kept another cell as it was and added
\* no coordinate
C20_Witness ==
    /\ Returned
    /\ next_tick = Empty
    /\ DOMAIN current_tick = DOMAIN prior
    /\ \E c \in Changed : c \notin DOMAIN delta
    /\ \E c \in DOMAIN current_tick : c \notin Changed

\* C11: silent no-op.  When the rule table has no match for a scheduled cell,
\* because the rule of its state does not fire or because its state has no
\* rule at all, processing the cell raises no error, writes nothing and
\* reports nothing, so the cell keeps its state through the tick.
C11_SilentNoOp ==
    (pc = "loop" /\ schedule # <<>>) =>
        LET cell == Head(schedule)
            state == FixedGrid_get_state(Grid, cell)
            nbhd == FixedGrid_get_neighborhood(Grid, cell)
            step == TransitionCell(Grid, delta, cell)
        IN  (\/ state \notin DOMAIN rules
             \/ ASTRoot_evaluate(rules[state].rule, nbhd.states) = 0) =>
                /\ ~step.panic
                /\ step.grid = Grid
                /\ step.delta = delta

(***************************************************************************)
(* Pure operations applied one at a time, as the unit tests of the         *)
(* evaluators, the coordinates and the bounds apply them: `call` names the *)
(* operation and its arguments, `ret` is what it returned.                 *)
(***************************************************************************)
Call(op, args) == [op |-> op, args |-> args]

\* every Vec of at most n elements of S
RECURSIVE SeqsUpTo(_, _)
SeqsUpTo(S, n) ==
    IF n = 0 THEN {<<>>}
    ELSE LET shorter == SeqsUpTo(S, n - 1)
         IN  shorter \cup {Append(s, x) : s \in {t \in shorter : Len(t) = n - 1}, x \in S}

\* the neighbourhoods handed to the census: any Vec of states, duplicates included
CensusNeighborhoods == SeqsUpTo(StateIds, MaxCells + 1)

\* isize operands at and around the limits of the type
IsizeOperands == {ISIZE_MIN, ISIZE_MIN + 1, -1, 0, 1, ISIZE_MAX - 1, ISIZE_MAX}
\* RuleValue operands of the naive operators
RuleValues == {Number(n) : n \in IsizeOperands} \cup {Boolean(TRUE), Boolean(FALSE)}
\* LoafType operands of the generic nodes
LoafTypes == {LoafInteger(n) : n \in IsizeOperands} \cup {LoafBoolean(TRUE), LoafBoolean(FALSE)}

ArithmeticOps == {"AddOp", "SubOp", "MulOp", "DivOp"}
OrderingOps == {"GtOp", "GteOp", "LtOp", "LteOp"}
BinaryOps == ArithmeticOps \cup OrderingOps \cup {"EqOp", "NeqOp", "AndOp", "OrOp"}
ArithmeticNodes == {"AddNode", "SubNode", "MulNode", "DivNode"}
OrderingNodes == {"GtNode", "GteNode", "LtNode", "LteNode"}
BinaryNodes == ArithmeticNodes \cup OrderingNodes \cup {"EqNode", "NeqNode", "AndNode", "OrNode"}

\* a bool as 1 for true, 0 for false
Bit(b) == IF b THEN 1 ELSE 0
\* a returned bool
Bool(b) == [kind |-> "bool", v |-> Bit(b)]
\* a returned bool that the model holds as 1 / 0, or the panic raised instead
OfBit(x) == IF x = Panicked THEN Panic ELSE [kind |-> "bool", v |-> x]
\* a returned Option<StateId>, or the panic raised instead
OfOption(o) ==
    IF o = Panicked THEN Panic
    ELSE IF o = None THEN [kind |-> "None", v |-> 0] ELSE [kind |-> "Some", v |-> o]

\* impl Into<bool> for LoafType
LoafType_into_bool(value) == IF value.kind # "Boolean" THEN Panicked ELSE Bit(value.v = 1)

\* a rule table with the single rule "from A to B := value"
LiteralRule(value) ==
    from_block(<<TransitionRule("A", "B", Num(value.v))>>)

\* the runtimes play no part while pure operations are applied
CallInit ==
    /\ NoNaiveRuntime
    /\ current_tick = Empty
    /\ next_tick = Empty
    /\ neighborhood = <<>>
    /\ rules = Empty
    /\ pc = "test"
    /\ schedule = <<>>
    /\ delta = Empty
    /\ prior = Empty
    /\ call = NoCall
    /\ ret = NoReturn

\* a test applies one operation and records the call and what it returned
Returns(op, args, value) ==
    /\ pc' = "done"
    /\ call' = Call(op, args)
    /\ ret' = value
    /\ UNCHANGED <<current_tick, next_tick, initial_dimensions, boundary, static_state,
                   default_state, rules, neighborhood, tick, schedule, last, delta, prior>>

\* Census::evaluate of the naive runtime
CensusEvaluate ==
    /\ pc = "test"
    /\ \E state_id \in StateIds, nbhd \in CensusNeighborhoods :
           Returns("Census::evaluate", <<state_id, nbhd>>, rule_evaluate(Census(state_id), nbhd))

\* CensusNode::evaluate of the generic runtime
CensusNodeEvaluate ==
    /\ pc = "test"
    /\ \E state \in StateIds, nbhd \in CensusNeighborhoods :
           Returns("CensusNode::evaluate", <<state, nbhd>>, ASTNode_evaluate(CensusNode(state), nbhd))

\* bool::from(RuleValue)
BoolFromRuleValue ==
    /\ pc = "test"
    /\ \E value \in RuleValues : Returns("bool::from", <<value>>, Bool(into_bool(value)))

\* LoafType::into::<bool>
LoafTypeIntoBool ==
    /\ pc = "test"
    /\ \E value \in LoafTypes : Returns("LoafType::into", <<value>>, OfBit(LoafType_into_bool(value)))

\* Rules::evaluate on a rule whose root is a Number literal
RulesEvaluate ==
    /\ pc = "test"
    /\ \E value \in {v \in RuleValues : v.kind = "Number"} :
           Returns("Rules::evaluate", <<value>>, OfOption(evaluate(LiteralRule(value), STATE_A, <<>>)))

\* ASTRoot::evaluate on a literal
ASTRootEvaluate ==
    /\ pc = "test"
    /\ \E value \in LoafTypes :
           Returns("ASTRoot::evaluate", <<value>>, OfBit(ASTRoot_evaluate(LiteralNode(value), <<>>)))

\* a binary operator of the naive runtime on two values, in a build with or
\* without overflow checks
BinaryOpEvaluate ==
    /\ pc = "test"
    /\ \E op \in BinaryOps, lhs \in RuleValues, rhs \in RuleValues, overflow_checks \in BOOLEAN :
           Returns(op, <<lhs, rhs, overflow_checks>>, apply_op_isize(op, lhs, rhs, overflow_checks))

\* a binary node of the generic runtime on two literals
BinaryNodeEvaluate ==
    /\ pc = "test"
    /\ \E node \in BinaryNodes, lhs \in LoafTypes, rhs \in LoafTypes :
           Returns(node, <<lhs, rhs>>,
                   ASTNode_evaluate(BinaryNode(node, LiteralNode(lhs), LiteralNode(rhs)), <<>>))

EvalNext ==
    \/ CensusEvaluate
    \/ CensusNodeEvaluate
    \/ BoolFromRuleValue
    \/ LoafTypeIntoBool
    \/ RulesEvaluate
    \/ ASTRootEvaluate
    \/ BinaryOpEvaluate
    \/ BinaryNodeEvaluate

EvalSpec == CallInit /\ [][EvalNext]_vars

(***************************************************************************)
(* Properties of the evaluators.                                           *)
(***************************************************************************)
\* the number of occurrences of `state` in `nbhd`, every duplicate counted
RECURSIVE Occurrences(_, _)
Occurrences(state, nbhd) ==
    IF nbhd = <<>> THEN 0
    ELSE (IF Head(nbhd) = state THEN 1 ELSE 0) + Occurrences(state, Tail(nbhd))

\* C21: evaluating the census of a state s on a neighbourhood N yields the
\* Integer k, k being the number of occurrences of s in N with duplicates
\* counted, in the naive and in the generic evaluator; k is 0 when N is empty
\* or s does not occur in N.
C21_Census ==
    /\ call.op = "Census::evaluate" =>
          /\ ret = Number(Occurrences(call.args[1], call.args[2]))
          /\ (\A i \in 1..Len(call.args[2]) : call.args[2][i] # call.args[1]) => ret = Number(0)
    /\ call.op = "CensusNode::evaluate" =>
          /\ ret = LoafInteger(Occurrences(call.args[1], call.args[2]))
          /\ (\A i \in 1..Len(call.args[2]) : call.args[2][i] # call.args[1]) => ret = LoafInteger(0)

\* a census of a neighbourhood that holds the state more than once, next to
\* another state
C21_Witness ==
    /\ call.op = "Census::evaluate"
    /\ ret = Number(2)
    /\ Len(call.args[2]) = 3

\* the Boolean the specification gives a value: a Boolean is itself, the
\* Integer 0 is false and every other Integer is true
Coerced(value) == value.v # 0

\* C22: wherever a rule value is coerced to Boolean (the conversion itself,
\* the operands of `and` / `or`, the root value of a transition rule), the
\* Integer 0 coerces to false and every other Integer to true, in the naive
\* and in the generic evaluator.
C22_IntegerCoercion ==
    /\ call.op = "bool::from" => ret = Bool(Coerced(call.args[1]))
    /\ call.op = "Rules::evaluate" =>
          ret = OfOption(IF Coerced(call.args[1]) THEN STATE_B ELSE None)
    /\ call.op = "AndOp" => ret = Boolean(Coerced(call.args[1]) /\ Coerced(call.args[2]))
    /\ call.op = "OrOp" => ret = Boolean(Coerced(call.args[1]) \/ Coerced(call.args[2]))
    /\ call.op = "LoafType::into" => ret = Bool(Coerced(call.args[1]))
    /\ call.op = "ASTRoot::evaluate" => ret = Bool(Coerced(call.args[1]))
    /\ call.op = "AndNode" => ret = LoafBoolean(Coerced(call.args[1]) /\ Coerced(call.args[2]))
    /\ call.op = "OrNode" => ret = LoafBoolean(Coerced(call.args[1]) \/ Coerced(call.args[2]))

\* C23: an arithmetic operator (+ - * /) or an ordering operator
\* (< <= > >=) applied to an operand that is not an Integer raises a fatal
\* error and yields no value, in the naive and in the generic evaluator.
C23_NonIntegerOperandIsFatal ==
    /\ (/\ call.op \in ArithmeticOps \cup OrderingOps
        /\ (call.args[1].kind # "Number" \/ call.args[2].kind # "Number")) => ret = Panic
    /\ (/\ call.op \in ArithmeticNodes \cup OrderingNodes
        /\ (call.args[1].kind # "Integer" \/ call.args[2].kind # "Integer")) => ret = LoafPanic

\* the mathematical result of an arithmetic operator on two integers, the
\* divisor not being 0
Exact(op, a, b) ==
    CASE op \in {"AddOp", "AddNode"} -> a + b
      [] op \in {"SubOp", "SubNode"} -> a - b
      [] op \in {"MulOp", "MulNode"} -> a * b
      [] OTHER -> TruncDiv(a, b)

\* an arithmetic operator on two integers must abort: the divisor of a
\* division is 0, or the mathematical result is not representable
MustAbort(op, a, b) ==
    \/ op \in {"DivOp", "DivNode"} /\ b = 0
    \/ ~fits_isize(Exact(op, a, b))

\* C24: integer arithmetic in rule expressions is checked, in the naive and in
\* the generic evaluator: a division by 0 is a fatal error, and an addition,
\* subtraction, multiplication or division whose mathematical result does not
\* fit the integer type (MIN / -1 included) is a fatal error, never a wrapped
\* value; otherwise the result is the mathematical one.
C24_CheckedArithmetic ==
    /\ (/\ call.op \in ArithmeticOps
        /\ call.args[1].kind = "Number"
        /\ call.args[2].kind = "Number") =>
          ret = (IF MustAbort(call.op, call.args[1].v, call.args[2].v) THEN Panic
                 ELSE Number(Exact(call.op, call.args[1].v, call.args[2].v)))
    /\ (/\ call.op \in ArithmeticNodes
        /\ call.args[1].kind = "Integer"
        /\ call.args[2].kind = "Integer") =>
          ret = (IF MustAbort(call.op, call.args[1].v, call.args[2].v) THEN LoafPanic
                 ELSE LoafInteger(Exact(call.op, call.args[1].v, call.args[2].v)))

(***************************************************************************)
(* The Infinite boundary without a default state.                          *)
(***************************************************************************)
\* run_tick is running on a runtime whose boundary is Infinite and whose
\* default state is undefined
InfiniteWithoutDefault == pc = "loop" /\ boundary = Infinite /\ default_state = None

range_half_open(low, high) == [i \in 1..(high - low) |-> low + i - 1]

\* the items of the RangeInclusive low..=high
range(low, high) == [i \in 1..(high - low + 1) |-> low + i - 1]

\* the items of repeat(x).zip(ys)
repeat_zip(x, ys) == [i \in 1..Len(ys) |-> <<x>> \o ys[i]]

\* every item DimensionsIter2D::next yields from a state of the iterator:
\* successive calls drain `queue` item by item, then refill it
RECURSIVE DimensionsIter2D(_, _, _)
DimensionsIter2D(x_queue, y_template, queue) ==
    IF queue # <<>> THEN queue \o DimensionsIter2D(x_queue, y_template, <<>>)
    ELSE IF x_queue = <<>> THEN <<>>
    ELSE DimensionsIter2D(Tail(x_queue), y_template,
                          repeat_zip(Head(x_queue), [i \in 1..Len(y_template) |-> <<y_template[i]>>]))

\* every item DimensionsIter3D::next yields from a state of the iterator:
\* successive calls drain `queue` item by item, then refill it
RECURSIVE DimensionsIter3D(_, _, _, _, _, _)
DimensionsIter3D(x_queue, current_x, y_queue, y_template, z_template, queue) ==
    IF queue # <<>>
    THEN queue \o DimensionsIter3D(x_queue, current_x, y_queue, y_template, z_template, <<>>)
    ELSE IF y_queue # <<>>
    THEN DimensionsIter3D(x_queue, current_x, Tail(y_queue), y_template, z_template,
                          repeat_zip(current_x,
                                     repeat_zip(Head(y_queue),
                                                [i \in 1..Len(z_template) |-> <<z_template[i]>>])))
    ELSE IF x_queue = <<>> THEN <<>>
    ELSE DimensionsIter3D(Tail(x_queue), Head(x_queue), y_template, y_template,
                          z_template, <<>>)

\* DimensionsIter::new followed by next until None: the Vec a `for` over the
\* bounds visits
DimensionsIter_new(dims) ==
    IF Len(dims) = 1
    THEN [i \in 1..Len(range(dims[1][1], dims[1][2])) |-> <<range(dims[1][1], dims[1][2])[i]>>]
    ELSE IF Len(dims) = 2
    THEN DimensionsIter2D(range(dims[1][1] + 1, dims[1][2]),
                          range(dims[2][1], dims[2][2]),
                          repeat_zip(dims[1][1],
                                     [i \in 1..Len(range(dims[2][1], dims[2][2])) |->
                                         <<range(dims[2][1], dims[2][2])[i]>>]))
    ELSE DimensionsIter3D(range(dims[1][1] + 1, dims[1][2]),
                          dims[1][1],
                          range(dims[2][1] + 1, dims[2][2]),
                          range(dims[2][1], dims[2][2]),
                          range(dims[3][1], dims[3][2]),
                          repeat_zip(dims[1][1],
                                     repeat_zip(dims[2][1],
                                                [i \in 1..Len(range(dims[3][1], dims[3][2])) |->
                                                    <<range(dims[3][1], dims[3][2])[i]>>])))

\* ClosedSet::contains of BoundingBox1D, BoundingBox2D and BoundingBox3D
BoundingBox_contains(box, coord) ==
    IF Len(box) = 1
    THEN IF box[1][1] < coord[1] /\ box[1][2] > coord[1] THEN "Within"
         ELSE IF box[1][1] = coord[1] \/ box[1][2] = coord[1] THEN "OnEdge"
         ELSE "Outside"
    ELSE IF \A i \in 1..Len(box) : box[i][1] <= coord[i] /\ box[i][2] >= coord[i]
         THEN IF \E i \in 1..Len(box) : box[i][1] = coord[i] \/ box[i][2] = coord[i]
              THEN "OnEdge" ELSE "Within"
         ELSE "Outside"

\* ClosedSet::on_edge
on_edge(box, coord) == BoundingBox_contains(box, coord) = "OnEdge"

\* derived Ord of Dimension: X < Y < Z < All
DimensionIndex(dimension) ==
    CASE dimension = "X" -> 1 [] dimension = "Y" -> 2 [] dimension = "Z" -> 3 [] OTHER -> 4

\* the items of DimensionIterator
DimensionIterator(dimension) == IF dimension = "All" THEN <<"X", "Y", "Z">> ELSE <<dimension>>

\* Coordinate::x / y / z of Coordinate1D, Coordinate2D, Coordinate3D
Coordinate_get(c, dimension) ==
    IF DimensionIndex(dimension) > Len(c) THEN Panic
    ELSE [kind |-> "isize", v |-> c[DimensionIndex(dimension)]]

\* Coordinate::set: set_x / set_y / set_z / set_all, the coordinate afterwards
Coordinate_set(c, dimension, value) ==
    IF dimension = "All" THEN [i \in 1..Len(c) |-> value]
    ELSE IF DimensionIndex(dimension) > Len(c) THEN NoCoordinate
    ELSE [c EXCEPT ![DimensionIndex(dimension)] = value]

\* OffsetIterator::next until None, from the dimensions still to come
RECURSIVE OffsetIterator(_, _, _)
OffsetIterator(coord, dim_iter, value) ==
    IF dim_iter = <<>> THEN <<>>
    ELSE IF DimensionIndex(Head(dim_iter)) > Len(coord) THEN <<>>
    ELSE <<Coordinate_set(coord, Head(dim_iter), value)>>
             \o OffsetIterator(coord, Tail(dim_iter), value)

\* Coordinate::offset collected into a Vec
offset(coord, dimension, value) == OffsetIterator(coord, DimensionIterator(dimension), value)

\* a returned Coordinate, or the panic raised instead
OfCoordinate(c) == IF c = NoCoordinate THEN Panic ELSE [kind |-> "Coordinate", v |-> c]
\* a returned Vec<Coordinate>
OfVec(cs) == [kind |-> "Vec", v |-> cs]
\* the bool DimensionBounds::contains or boundary returns, or the panic raised instead
OfContains(dims, coord, value) == IF dimension_mismatch(dims, coord) THEN Panic ELSE Bool(value)

\* the (low, high) bounds of one axis: low <= high, low = high included
AxisBounds == {<<-Extent, Extent>>, <<-Extent, 0>>, <<0, Extent>>, <<0, 0>>}
\* 1D, 2D and 3D bounds
Bounds1D == {<<x>> : x \in AxisBounds}
Bounds2D == {<<x, y>> : x \in AxisBounds, y \in AxisBounds}
Bounds3D == {<<x, y, z>> : x \in AxisBounds, y \in AxisBounds, z \in AxisBounds}
AllBounds == Bounds1D \cup Bounds2D \cup Bounds3D

\* components inside, on and one step outside the bounds
Components == (-(Extent + 1))..(Extent + 1)
\* 1D, 2D and 3D coordinates
Coords1D == {<<x>> : x \in Components}
Coords2D == {<<x, y>> : x \in Components, y \in Components}
Coords3D == {<<x, y, z>> : x \in Components, y \in Components, z \in Components}
AllCoords == Coords1D \cup Coords2D \cup Coords3D

\* the magnitudes and values handed to the coordinate operations
Magnitudes == (-Magnitude)..Magnitude
Dimensions == {"X", "Y", "Z", "All"}

\* DimensionBounds::contains
DimensionBoundsContains ==
    /\ pc = "test"
    /\ \E dims \in AllBounds, coord \in AllCoords :
           Returns("DimensionBounds::contains", <<dims, coord>>,
                   OfContains(dims, coord, contains(dims, coord)))

\* DimensionBounds::boundary
DimensionBoundsBoundary ==
    /\ pc = "test"
    /\ \E dims \in AllBounds, coord \in AllCoords :
           Returns("DimensionBounds::boundary", <<dims, coord>>,
                   OfContains(dims, coord, DimensionBounds_boundary(dims, coord)))

\* ClosedSet::on_edge of a bounding box; the coordinate type is the box's
ClosedSetOnEdge ==
    /\ pc = "test"
    /\ \E box \in AllBounds, coord \in AllCoords :
           /\ Len(coord) = Len(box)
           /\ Returns("ClosedSet::on_edge", <<box, coord>>, Bool(on_edge(box, coord)))

\* `for coord in dims`, collected
DimensionBoundsIterate ==
    /\ pc = "test"
    /\ \E dims \in AllBounds :
           Returns("DimensionBounds::into_iter", <<dims>>, OfVec(DimensionsIter_new(dims)))

\* Coordinate::add_x .. sub_z of the naive runtime
CoordinateAxisOp ==
    /\ pc = "test"
    /\ \E c \in AllCoords, magnitude \in Magnitudes :
           \/ Returns("Coordinate::add_x", <<c, magnitude>>, OfCoordinate(add_x(c, magnitude)))
           \/ Returns("Coordinate::add_y", <<c, magnitude>>, OfCoordinate(add_y(c, magnitude)))
           \/ Returns("Coordinate::add_z", <<c, magnitude>>, OfCoordinate(add_z(c, magnitude)))
           \/ Returns("Coordinate::sub_x", <<c, magnitude>>, OfCoordinate(sub_x(c, magnitude)))
           \/ Returns("Coordinate::sub_y", <<c, magnitude>>, OfCoordinate(sub_y(c, magnitude)))
           \/ Returns("Coordinate::sub_z", <<c, magnitude>>, OfCoordinate(sub_z(c, magnitude)))

\* Coordinate::add_all of the naive runtime
CoordinateAddAll ==
    /\ pc = "test"
    /\ \E c \in AllCoords, magnitude \in Magnitudes :
           Returns("Coordinate::add_all", <<c, magnitude>>, OfVec(add_all(c, magnitude)))

\* Coordinate::x / y / z of the generic runtime
CoordinateGet ==
    /\ pc = "test"
    /\ \E c \in AllCoords, dimension \in Dimensions \ {"All"} :
           Returns("Coordinate::get", <<c, dimension>>, Coordinate_get(c, dimension))

\* Coordinate::set of the generic runtime
CoordinateSet ==
    /\ pc = "test"
    /\ \E c \in AllCoords, dimension \in Dimensions, value \in Magnitudes :
           Returns("Coordinate::set", <<c, dimension, value>>,
                   OfCoordinate(Coordinate_set(c, dimension, value)))

\* Coordinate::offset of the generic runtime, collected
CoordinateOffset ==
    /\ pc = "test"
    /\ \E c \in AllCoords, dimension \in Dimensions, value \in Magnitudes :
           Returns("Coordinate::offset", <<c, dimension, value>>,
                   OfVec(offset(c, dimension, value)))

CoordNext ==
    \/ DimensionBoundsContains
    \/ DimensionBoundsBoundary
    \/ ClosedSetOnEdge
    \/ DimensionBoundsIterate
    \/ CoordinateAxisOp
    \/ CoordinateAddAll
    \/ CoordinateGet
    \/ CoordinateSet
    \/ CoordinateOffset

CoordSpec == CallInit /\ [][CoordNext]_vars

(***************************************************************************)
(* Properties of the bounds and the coordinates.                           *)
(***************************************************************************)
\* the lattice points of bounds: every component in its inclusive range
Lattice(dims, coord) == \A i \in 1..Len(dims) : coord[i] \in dims[i][1]..dims[i][2]
\* some component of the coordinate is the low or the high of its axis
TouchesBound(dims, coord) == \E i \in 1..Len(dims) : coord[i] \in {dims[i][1], dims[i][2]}
\* the call is on bounds and a coordinate of the same dimensionality
SameDimensionality == Len(call.args[1]) = Len(call.args[2])

\* C26: for bounds and a coordinate of the same dimensionality, the edge
\* predicate (DimensionBounds::boundary, ClosedSet::on_edge) is true if and
\* only if the coordinate is contained in the bounds and at least one of its
\* components equals its axis's low or high; it is false for every coordinate
\* outside the bounds, also when one component equals a bound.
C26_OnEdge ==
    (call.op \in {"DimensionBounds::boundary", "ClosedSet::on_edge"} /\ SameDimensionality) =>
        ret = Bool(Lattice(call.args[1], call.args[2]) /\ TouchesBound(call.args[1], call.args[2]))

\* C27: for bounds and a coordinate of the same dimensionality,
\* DimensionBounds::contains is true if and only if every component of the
\* coordinate lies in the inclusive [low, high] range of its axis.
C27_Contains ==
    (call.op = "DimensionBounds::contains" /\ SameDimensionality) =>
        ret = Bool(Lattice(call.args[1], call.args[2]))

\* contains has answered for a 3D coordinate on the corner of the bounds and
\* for one a step outside
C27_Witness ==
    /\ call.op = "DimensionBounds::contains"
    /\ Len(call.args[1]) = 3
    /\ \/ ret = Bool(TRUE) /\ \A i \in 1..3 : call.args[2][i] = call.args[1][i][2]
       \/ ret = Bool(FALSE) /\ \E i \in 1..3 : call.args[2][i] = call.args[1][i][2] + 1

\* lexicographic order of two coordinates of the same dimensionality, X first
LexLess(a, b) ==
    \E i \in 1..Len(a) : a[i] < b[i] /\ \A j \in 1..(i - 1) : a[j] = b[j]

\* the number of lattice points of bounds: the product of the breadths
RECURSIVE Volume(_)
Volume(dims) ==
    IF dims = <<>> THEN 1 ELSE (Head(dims)[2] - Head(dims)[1] + 1) * Volume(Tail(dims))

\* C28: iterating 1D, 2D or 3D bounds with low <= high on every axis (low =
\* high included) ends and yields exactly the product over the axes of
\* (high - low + 1) coordinates, each once, each contained in the bounds, in
\* lexicographic order with X outermost, then Y, then Z.
C28_Iteration ==
    call.op = "DimensionBounds::into_iter" =>
        /\ ret.kind = "Vec"
        /\ Len(ret.v) = Volume(call.args[1])
        /\ \A i \in 1..Len(ret.v) :
              /\ Len(ret.v[i]) = Len(call.args[1])
              /\ Lattice(call.args[1], ret.v[i])
        /\ \A i \in 1..(Len(ret.v) - 1) : LexLess(ret.v[i], ret.v[i + 1])

\* 3D bounds with more than one point on every axis have been iterated, and
\* so have bounds with low = high on an axis
C28_Witness ==
    /\ call.op = "DimensionBounds::into_iter"
    /\ Len(call.args[1]) = 3
    /\ \/ \A i \in 1..3 : call.args[1][i][1] < call.args[1][i][2]
       \/ \E i \in 1..3 : call.args[1][i][1] = call.args[1][i][2]
    /\ Len(ret.v) >= 1

\* the coordinate translated by n along the one axis i
Translated(c, i, n) == [j \in 1..Len(c) |-> IF j = i THEN c[j] + n ELSE c[j]]

\* C29: for every coordinate c, the origin or not, and every integer n, the
\* all-axes offset operation (Coordinate::add_all of the naive runtime,
\* Coordinate::offset(Dimension::All, n) of the generic one) yields exactly
\* one coordinate per axis of c, the i-th being c translated by n along axis i
\* with the other components unchanged.
C29_PerAxisOffsets ==
    (\/ call.op = "Coordinate::add_all"
     \/ call.op = "Coordinate::offset" /\ call.args[2] = "All") =>
        ret = OfVec([i \in 1..Len(call.args[1]) |->
                        Translated(call.args[1], i, call.args[Len(call.args)])])

\* the operation is one of a Y operation on a 1D coordinate and a Z operation
\* on a 1D or 2D coordinate
AxisMismatch ==
    \/ /\ call.op \in {"Coordinate::add_y", "Coordinate::sub_y"}
       /\ Len(call.args[1]) < 2
    \/ /\ call.op \in {"Coordinate::add_z", "Coordinate::sub_z"}
       /\ Len(call.args[1]) < 3
    \/ /\ call.op \in {"Coordinate::get", "Coordinate::set"}
       /\ \/ call.args[2] = "Y" /\ Len(call.args[1]) < 2
          \/ call.args[2] = "Z" /\ Len(call.args[1]) < 3

\* the call hands bounds a coordinate of another dimensionality
BoundsMismatch ==
    /\ call.op \in {"DimensionBounds::contains", "DimensionBounds::boundary"}
    /\ ~SameDimensionality

\* the operations the dimension check guards
Guarded ==
    call.op \in {"Coordinate::add_x", "Coordinate::add_y", "Coordinate::add_z",
                 "Coordinate::sub_x", "Coordinate::sub_y", "Coordinate::sub_z",
                 "Coordinate::get", "Coordinate::set",
                 "DimensionBounds::contains", "DimensionBounds::boundary"}

\* C30: a dimension mismatch is a fatal error: a Y operation on a 1D
\* coordinate, a Z operation on a 1D or 2D coordinate (add, sub, get, set) and
\* contains / boundary with a coordinate whose dimensionality differs from
\* the bounds' abort instead of returning a value; the same operations on
\* matching dimensions return one.
C30_DimensionMismatch ==
    Guarded => (ret = Panic <=> (AxisMismatch \/ BoundsMismatch))

\* add_y on a 1D coordinate and contains on 2D bounds with a 3D coordinate
\* have aborted
C30_Witness ==
    /\ ret = Panic
    /\ \/ call.op = "Coordinate::add_y" /\ Len(call.args[1]) = 1
       \/ /\ call.op = "DimensionBounds::contains"
          /\ Len(call.args[1]) = 2
          /\ Len(call.args[2]) = 3

(***************************************************************************)
(* Pure operations: the neighbourhood operator.                            *)
(***************************************************************************)
\* the Vec a NeighborhoodIter is collected into, or the panic of a coordinate
\* operation on an axis the coordinate lacks
OfNeighbors(cs) ==
    IF \E i \in 1..Len(cs) : cs[i] = NoCoordinate THEN Panic ELSE OfVec(cs)

\* the axes of a coordinate of n dimensions
AxesOf(n) == {d \in {"X", "Y", "Z"} : DimensionIndex(d) <= n}

\* single edge rules: every dimension, both kinds, every magnitude
EdgeRules ==
    {UndirectedEdge(d, m) : d \in Dimensions, m \in Magnitudes}
        \cup {DirectedEdge(d, m) : d \in Dimensions, m \in Magnitudes}

\* the edge rules along one of the given axes a Compound is built from
AxisEdgeRules(axes) ==
    {UndirectedEdge(d, Magnitude) : d \in axes}
        \cup {DirectedEdge(d, Magnitude) : d \in axes}

\* a Compound has at most this many children
MaxChildren == 3

\* the coordinates a Compound is applied to: each component the origin's or
\* Extent away from it
CompoundOrigins == {c \in AllCoords : \A i \in 1..Len(c) : c[i] \in {-Extent, 0, Extent}}

\* rule lists of several top-level rules: the Moore list, the two Compounds of
\* the test `compound`, and pairs of undirected edges
RuleLists ==
    {MooreRules,
     <<Compound(<<UndirectedEdge("X", Magnitude), UndirectedEdge("Y", Magnitude)>>),
       Compound(<<UndirectedEdge("Y", Magnitude), UndirectedEdge("X", Magnitude)>>)>>}
        \cup {<<UndirectedEdge(d, Magnitude), UndirectedEdge(e, Magnitude)>> :
                 d \in Dimensions, e \in Dimensions}

\* Neighborhood::neighbors of a single edge rule, collected
NeighborsOfEdge ==
    /\ pc = "test"
    /\ \E rule \in EdgeRules, c \in AllCoords :
           Returns("Neighborhood::neighbors", <<<<rule>>, c>>,
                   OfNeighbors(neighbors(<<rule>>, c)))

\* Neighborhood::neighbors of a single Compound rule whose children run along
\* axes of the coordinate, collected
NeighborsOfCompound ==
    /\ pc = "test"
    /\ \E c \in CompoundOrigins :
          \E children \in SeqsUpTo(AxisEdgeRules(AxesOf(Len(c))), MaxChildren) \ {<<>>} :
              Returns("Neighborhood::neighbors", <<<<Compound(children)>>, c>>,
                      OfNeighbors(neighbors(<<Compound(children)>>, c)))

\* Neighborhood::neighbors of a list of several rules, collected
NeighborsOfRuleList ==
    /\ pc = "test"
    /\ \E nrules \in RuleLists, c \in AllCoords :
           Returns("Neighborhood::neighbors", <<nrules, c>>,
                   OfNeighbors(neighbors(nrules, c)))

NeighborNext ==
    \/ NeighborsOfEdge
    \/ NeighborsOfCompound
    \/ NeighborsOfRuleList

NeighborSpec == CallInit /\ [][NeighborNext]_vars

(***************************************************************************)
(* Properties of the neighbourhood operator.                               *)
(***************************************************************************)
\* two sequences hold the same elements the same number of times
SameMultiset(s, t) ==
    /\ Len(s) = Len(t)
    /\ \A i \in 1..Len(s) : Occurrences(s[i], s) = Occurrences(s[i], t)

\* the call is Neighborhood::neighbors of exactly one rule
OneRule == call.op = "Neighborhood::neighbors" /\ Len(call.args[1]) = 1

\* C31: for an UndirectedEdge rule along a single axis X, Y or Z with
\* magnitude m, neighbors(c) yields exactly two coordinates, c translated by
\* +m and c translated by -m along that axis, for every coordinate c that has
\* the axis.
C31_UndirectedEdgeSymmetry ==
    (/\ OneRule
     /\ call.args[1][1].rule = "UndirectedEdge"
     /\ call.args[1][1].dimension # "All"
     /\ DimensionIndex(call.args[1][1].dimension) <= Len(call.args[2])) =>
        /\ ret.kind = "Vec"
        /\ Len(ret.v) = 2
        /\ SameMultiset(ret.v,
                        <<Translated(call.args[2], DimensionIndex(call.args[1][1].dimension),
                                     call.args[1][1].magnitude),
                          Translated(call.args[2], DimensionIndex(call.args[1][1].dimension),
                                     -call.args[1][1].magnitude)>>)

\* an UndirectedEdge along Y of magnitude 1 has yielded two different
\* neighbours of a 2D coordinate, and one along X two neighbours of a 1D one
C31_Witness ==
    /\ OneRule
    /\ call.args[1][1].rule = "UndirectedEdge"
    /\ call.args[1][1].magnitude = 1
    /\ \/ call.args[1][1].dimension = "Y" /\ Len(call.args[2]) = 2
       \/ call.args[1][1].dimension = "X" /\ Len(call.args[2]) = 1
    /\ ret.kind = "Vec"
    /\ Len(ret.v) = 2
    /\ ret.v[1] # ret.v[2]

\* iterative composition: the working collection after applying the children
\* in order, each to every coordinate of the collection
RECURSIVE Composition(_, _)
Composition(children, working) ==
    IF children = <<>> THEN working
    ELSE Composition(Tail(children),
                     Flatten([i \in 1..Len(working) |->
                                 RuleNeighbors(Head(children), working[i])]))

\* the four cells diagonal to a 2D coordinate
Diagonals(c) == {<<c[1] + dx, c[2] + dy>> : dx \in {-1, 1}, dy \in {-1, 1}}

\* the elements of a sequence
Range(s) == {s[i] : i \in 1..Len(s)}

\* the call is Neighborhood::neighbors of one Compound rule
OneCompound == OneRule /\ call.args[1][1].rule = "Compound"

\* C32: Compound{children} yields the result of iterative composition: start
\* from the singleton {origin}, for each child in order replace the working
\* collection by the results of applying that child to every coordinate in
\* it, and yield the final collection; Compound{UndirectedEdge{X,1},
\* UndirectedEdge{Y,1}} at a 2D origin yields the four diagonal cells and no
\* intermediate coordinate.
C32_CompoundComposition ==
    OneCompound =>
        /\ ret.kind = "Vec"
        /\ SameMultiset(ret.v, Composition(call.args[1][1].children, <<call.args[2]>>))
        /\ (/\ call.args[1][1].children = <<UndirectedEdge("X", 1), UndirectedEdge("Y", 1)>>
            /\ Len(call.args[2]) = 2) =>
                /\ Len(ret.v) = 4
                /\ Range(ret.v) = Diagonals(call.args[2])

\* a Compound of three children along two axes has yielded its composition,
\* and the Compound of the X and Y edges four coordinates at (0, 0)
C32_Witness ==
    /\ OneCompound
    /\ ret.kind = "Vec"
    /\ \/ /\ Len(call.args[1][1].children) = 3
          /\ call.args[1][1].children[2].dimension # call.args[1][1].children[3].dimension
          /\ Len(ret.v) > 2
       \/ /\ call.args[1][1].children = <<UndirectedEdge("X", 1), UndirectedEdge("Y", 1)>>
          /\ call.args[2] = <<0, 0>>
          /\ Len(ret.v) = 4

\* the cells at Chebyshev distance 1 from a 2D coordinate
ChebyshevRing(c) ==
    {<<c[1] + dx, c[2] + dy>> : dx \in -1..1, dy \in -1..1} \ {c}

\* what each top-level rule yields at the coordinate, one rule after the other
PerRule(nrules, c) == Flatten([i \in 1..Len(nrules) |-> RuleNeighbors(nrules[i], c)])

AttributeDefault == [attribute |-> "Default", rgb |-> <<>>]
AttributeColor(rgb) == [attribute |-> "Color", rgb |-> rgb]
\* DEFAULT_COLOR
DEFAULT_COLOR == <<255, 255, 255>>

\* one state of a states block as written: its name and its attributes
StateDeclaration(name, attributes) == [name |-> name, attributes |-> attributes]

\* impl TryFrom<LoafPair> for StatesBlock: the declarations are inserted into
\* a HashMap keyed by name, one after the other; it never fails on a
\* `default` attribute
RECURSIVE StatesBlock_try_from(_, _)
StatesBlock_try_from(declarations, block) ==
    IF declarations = <<>> THEN block
    ELSE StatesBlock_try_from(Tail(declarations),
                              Insert(block, Head(declarations).name,
                                     Head(declarations).attributes))

\* attributes.iter().find(|a| **a == Attribute::Default).is_some()
is_default(attributes) == \E i \in 1..Len(attributes) : attributes[i] = AttributeDefault

\* the colour of the first Color attribute, DEFAULT_COLOR without one
color_of(attributes) ==
    IF \E i \in 1..Len(attributes) : attributes[i].attribute = "Color"
    THEN attributes[CHOOSE i \in 1..Len(attributes) :
                        /\ attributes[i].attribute = "Color"
                        /\ \A j \in 1..(i - 1) : attributes[j].attribute # "Color"].rgb
    ELSE DEFAULT_COLOR

\* States::from_block: `order` is the order in which the HashMap of the block
\* yields its entries to enumerate()
States_from_block(states_block, order) ==
    [num_states |-> Len(order),
     name_map   |-> [name \in DOMAIN states_block |->
                        (CHOOSE i \in 1..Len(order) : order[i] = name) - 1],
     color_map  |-> [state_id \in 0..(Len(order) - 1) |->
                        color_of(states_block[order[state_id + 1]])],
     default    |-> IF \E i \in 1..Len(order) : is_default(states_block[order[i]])
                    THEN (CHOOSE i \in 1..Len(order) :
                             /\ is_default(states_block[order[i]])
                             /\ \A j \in (i + 1)..Len(order) :
                                   ~is_default(states_block[order[j]])) - 1
                    ELSE None]

\* a states block declares at most this many states
MaxStates == 3

\* the states a block can declare: a name, then no attribute, `default`, or a
\* colour and `default`
StateDeclarations ==
    {StateDeclaration(name, attributes) :
        name \in {"A", "B", "C"},
        attributes \in {<<>>, <<AttributeDefault>>,
                        <<AttributeColor(<<1, 2, 3>>), AttributeDefault>>}}

\* ProgramBuilder::states(pair.try_into()?) followed by States::from_block in
\* ProgramBuilder::build
StatesFromBlock ==
    /\ pc = "test"
    /\ \E declarations \in SeqsUpTo(StateDeclarations, MaxStates) \ {<<>>} :
          \E order \in Orders(DOMAIN StatesBlock_try_from(declarations, Empty)) :
              Returns("States::from_block", <<declarations>>,
                      [kind |-> "States",
                       v |-> States_from_block(StatesBlock_try_from(declarations, Empty),
                                               order)])

\* the blocks of a program
Blocks == {"boundary_block", "neighborhood_block", "environment_block", "state_block",
           "rule_block"}

\* Result of parse: Err(error) or Ok(builder), the builder as the set of its
\* fields that are Some
Err(error) == [kind |-> "Err", v |-> error]
Ok(builder) == [kind |-> "Ok", v |-> builder]

\* parse: the loop over the pairs of the program, `parsed` the blocks seen so
\* far (parsed_boundary .. parsed_rules, and the fields set on the builder)
RECURSIVE parse(_, _)
parse(root, parsed) ==
    IF root = <<>> THEN Ok(parsed)
    ELSE IF Head(root).rule \in parsed THEN Err("MultipleDefinitionsForBlock")
    ELSE IF ~Head(root).converts THEN Err("UnrepresentableNumber")
    ELSE parse(Tail(root), parsed \cup {Head(root).rule})

\* ProgramBuilder::build: every field is unwrapped
build(builder) == IF builder # Blocks THEN Panic ELSE [kind |-> "Program", v |-> builder]

\* main of the loaf binary: parse, exit(1) on an error, build otherwise
main(root) ==
    IF parse(root, {}).kind = "Err" THEN parse(root, {}) ELSE build(parse(root, {}).v)

\* a program has at most this many blocks
MaxBlocks == 6

\* the pairs a program yields: the five blocks, and an environment block
\* whose extent does not fit a number
Pairs ==
    {[rule |-> block, converts |-> TRUE] : block \in Blocks}
        \cup {[rule |-> "environment_block", converts |-> FALSE]}

\* parse
Parse ==
    /\ pc = "test"
    /\ \E root \in SeqsUpTo(Pairs, MaxBlocks) \ {<<>>} :
           Returns("parse", <<root>>, parse(root, {}))

\* main: parse, then build
Main ==
    /\ pc = "test"
    /\ \E root \in SeqsUpTo(Pairs, MaxBlocks) \ {<<>>} :
           Returns("main", <<root>>, main(root))

BuildNext ==
    \/ StatesFromBlock
    \/ Parse
    \/ Main

BuildSpec == CallInit /\ [][BuildNext]_vars

(***************************************************************************)
(* Properties of the state registry and the program builder.               *)
(***************************************************************************)
\* the names of the states of a block that carry `default`
MarkedDefault(declarations) ==
    {name \in DOMAIN StatesBlock_try_from(declarations, Empty) :
        is_default(StatesBlock_try_from(declarations, Empty)[name])}

\* C33: building the state registry from a states block in which more than
\* one state carries the `default` attribute fails with
\* MultipleDefaultStates; a registry never ends up with a default chosen
\* among several marked states.
C33_MultipleDefaultStates ==
    (/\ call.op = "States::from_block"
     /\ Cardinality(MarkedDefault(call.args[1])) > 1) =>
        ret = Err("MultipleDefaultStates")

\* no name is declared twice
DistinctNames(declarations) ==
    \A i, j \in 1..Len(declarations) :
        declarations[i].name = declarations[j].name => i = j

\* C34: the state registry assigns StateIds in declaration order of the
\* states block: the i-th declared state (counting from 0) gets id i, and the
\* ids are exactly the dense range [0, numStates).
C34_DeclarationOrder ==
    (/\ call.op = "States::from_block"
     /\ DistinctNames(call.args[1])
     /\ ret.kind = "States") =>
        /\ \A i \in 1..Len(call.args[1]) : ret.v.name_map[call.args[1][i].name] = i - 1
        /\ {ret.v.name_map[name] : name \in DOMAIN ret.v.name_map}
               = 0..(ret.v.num_states - 1)

\* some block is missing from the program, or some block appears twice
MissingBlock(root) == {root[i].rule : i \in 1..Len(root)} # Blocks
RepeatedBlock(root) == \E i, j \in 1..Len(root) : i # j /\ root[i].rule = root[j].rule

\* C35: parsing a program returns a parse error when any of the five blocks
\* appears twice and also when any of them is missing; parse never returns a
\* builder that lacks a block, so build is never reached with a missing
\* block.
C35_BlockProtocol ==
    /\ call.op = "parse" =>
          /\ (MissingBlock(call.args[1]) \/ RepeatedBlock(call.args[1])) => ret.kind = "Err"
          /\ ret.kind = "Ok" => ret.v = Blocks
    /\ call.op = "main" => ret # Panic

(***************************************************************************)
(* Properties of the tick: boundaries and buffers.                          *)
(***************************************************************************)
\* the coordinate lies on the edge of initial_dimensions
OnEdgeOfBounds(coord) ==
    /\ Len(coord) = Len(initial_dimensions)
    /\ Lattice(initial_dimensions, coord)
    /\ TouchesBound(initial_dimensions, coord)

\* C36: under a Static boundary with a named state, a neighbour lying on the
\* edge of the initial bounds is always read as the static state during
\* run_tick, even when current stores a different explicit state at that
\* coordinate; the explicit state of an edge cell never enters any census.
C36_EdgeReadAsStatic ==
    (static_state # None /\ last # NoLast) =>
        /\ \A i \in 1..Len(last.reads) :
              OnEdgeOfBounds(last.reads[i].neighbor) => last.reads[i].state = static_state
        /\ last.neighborhood = NeighborhoodStates(last.reads)

\* an edge neighbour that current stores in another state has been read as
\* the static state
C36_Witness ==
    /\ pc = "loop"
    /\ static_state # None
    /\ last # NoLast
    /\ \E i \in 1..Len(last.reads) :
          /\ OnEdgeOfBounds(last.reads[i].neighbor)
          /\ last.reads[i].neighbor \in DOMAIN current_tick
          /\ current_tick[last.reads[i].neighbor] # static_state
          /\ last.reads[i].state = static_state
          /\ last.neighborhood # <<>>

FiniteBoundary == boundary.kind \in {"Void", "Wrap", "Static"}

\* a neighbour inside the bounds that holds no cell in the generation
AbsentInBounds(coord) ==
    contains(initial_dimensions, coord) /\ coord \notin DOMAIN current_tick

\* C38 as stated: under a finite boundary (Void, Wrap or Static) run_tick
\* never creates a cell: the coordinates stored after the tick are among those
\* stored before it, and a neighbour inside the bounds that is absent from the
\* generation contributes nothing to the census, whatever the default state.
C38_FiniteNeverCreates ==
    [][FiniteBoundary =>
          /\ TickCompletes => DOMAIN current_tick' \subseteq DOMAIN current_tick
          /\ (pc' = "loop" /\ last' # NoLast) =>
                \A i \in 1..Len(last'.reads) :
                    AbsentInBounds(last'.reads[i].neighbor) =>
                        last'.reads[i].state = None]_vars

\* C38, amended: under a finite boundary run_tick never creates a cell: the
\* coordinates stored after the tick are among those stored before it; a
\* neighbour inside the bounds that is absent from the generation contributes
\* nothing to the census, except under a Static boundary with a named state,
\* where an absent neighbour on the edge of the bounds contributes the static
\* state.
C38_FiniteNeverStores ==
    [][FiniteBoundary =>
          /\ TickCompletes => DOMAIN current_tick' \subseteq DOMAIN current_tick
          /\ (pc' = "loop" /\ last' # NoLast) =>
                \A i \in 1..Len(last'.reads) :
                    AbsentInBounds(last'.reads[i].neighbor) =>
                        last'.reads[i].state =
                            IF static_state # None /\ OnEdgeOfBounds(last'.reads[i].neighbor)
                            THEN static_state ELSE None]_vars

\* under a finite boundary with a default state a cell was processed one of
\* whose neighbours lies inside the bounds, off their edge or without a static
\* state, and holds no cell: it contributed nothing to the census
C38_Witness ==
    /\ FiniteBoundary
    /\ pc = "loop"
    /\ default_state # None
    /\ last # NoLast
    /\ \E i \in 1..Len(last.reads) :
          /\ AbsentInBounds(last.reads[i].neighbor)
          /\ last.reads[i].state = None
          /\ ~last.reads[i].push

(***************************************************************************)
(* Pure operations: the ruleset of the generic runtime.                    *)
(***************************************************************************)
MaxRules == 2

\* rule expressions that evaluate to a Boolean on every neighbourhood
RuleExprs ==
    {LiteralNode(LoafBoolean(TRUE)),
     BinaryNode("GteNode", CensusNode(ALIVE), LiteralNode(LoafInteger(1))),
     BinaryNode("EqNode", CensusNode(ALIVE), LiteralNode(LoafInteger(0)))}

\* the entries a Vec handed to Ruleset::new is made of
RulePairs == {RulePair(from, rule, to) : from \in StateIds, rule \in RuleExprs, to \in StateIds}

\* Ruleset::new(rules).transition(from_state, neighborhood)
RulesetTransition ==
    /\ pc = "test"
    /\ \E pairs \in SeqsUpTo(RulePairs, MaxRules) \ {<<>>}, from_state \in StateIds,
          nbhd \in SeqsUpTo(StateIds, MaxRules) :
           Returns("Ruleset::transition", <<pairs, from_state, nbhd>>,
                   OfOption(Ruleset_transition(Ruleset_new(pairs), from_state, nbhd)))

\* Ruleset::new(rules).rules.len()
RulesetLen ==
    /\ pc = "test"
    /\ \E pairs \in SeqsUpTo(RulePairs, MaxRules) :
           Returns("Ruleset::new", <<pairs>>, Number(Cardinality(DOMAIN Ruleset_new(pairs))))

RulesetNext ==
    \/ RulesetTransition
    \/ RulesetLen

RulesetSpec == CallInit /\ [][RulesetNext]_vars

\* the `to` state of the first rule, in declaration order, that is declared for
\* from_state and whose expression is true on the neighbourhood; None when
\* there is none
RECURSIVE FirstTrue(_, _, _)
FirstTrue(pairs, from_state, nbhd) ==
    IF pairs = <<>> THEN None
    ELSE IF Head(pairs).from = from_state /\ ASTRoot_evaluate(Head(pairs).rule, nbhd) = 1
    THEN Head(pairs).to
    ELSE FirstTrue(Tail(pairs), from_state, nbhd)

\* C39: Ruleset keeps every rule declared for a from-state as an ordered
\* sequence: transition evaluates the rules of the from-state in declaration
\* order and returns the `to` state of the first whose expression is true, so
\* an earlier-declared rule is never discarded.
C39_RulesInDeclarationOrder ==
    (pc = "done" /\ call.op = "Ruleset::transition"
        /\ \E i \in 1..Len(call.args[1]) : call.args[1][i].from = call.args[2]) =>
        ret = OfOption(FirstTrue(call.args[1], call.args[2], call.args[3]))

=============================================================================
